---- MODULE Spec2Model ----
(***************************************************************************)
(* A model of the CORTAP-RPT data pipeline: the Riskuity client's batched  *)
(* fan-out fetch (app/services/riskuity_client.py), the consolidation of   *)
(* project controls into the canonical review areas                        *)
(* (app/services/data_transformer.py, src/services/                        *)
(* riskuity_control_mapping.py), the S3 JSON cache                         *)
(* (app/services/s3_storage.py), the orchestrator                         *)
(* (app/services/data_service.py) and the completeness validator           *)
(* (app/services/validator.py).                                            *)
(*                                                                         *)
(* Six specifications share the variables:                                 *)
(*   SpecTransform  the consolidation engine applied to bounded inputs     *)
(*   Spec           the orchestrator, the cache and the blob store         *)
(*   SpecRace       two get_project_data runs on one project               *)
(*   SpecFetch      get_all_assessment_details and its detail requests     *)
(*   SpecRequest    one _request_with_retry call, attempt by attempt       *)
(*   SpecValidate   one check_completeness call                            *)
(***************************************************************************)
EXTENDS Integers, Sequences, FiniteSets, TLC

VARIABLES
    \* ---- consolidation engine (SpecTransform)
    controls,       \* riskuity_project_controls handed to the transformer
    overrides,      \* project_metadata handed to transform: [isNone, d]
    hashSeed,       \* the running process's string-hash seed (PYTHONHASHSEED)
    review_areas,   \* the groups built by the last consolidation, insertion order
    consolidated,   \* result of the last _consolidate_assessments_by_review_area
    outcomes,       \* results of the transform calls made so far, in call order
    restarted,      \* whether the process restarted between the transform calls
    \* ---- time, shared by the transformer and the cache
    now,
    \* ---- blob store, cache and orchestrator (Spec)
    bucket,         \* the S3 bucket: key -> <<>> (no object) or <<content>>
    run,            \* the get_project_data runs: position, locals, result
    lastPut,        \* history: arguments of the last upload_json_data stored per key
    lastCall,       \* history: the last direct call on the store or the cache
                    \* since the last run began, and how it ended
    \* ---- remote fetcher (SpecFetch)
    fetcher,        \* get_all_assessment_details: position and locals
    requests,       \* the _request_with_retry calls: 0 the list call, k the
                    \* detail call for the k-th identifier
    \* ---- one remote request (SpecRequest)
    call,           \* a _request_with_retry call and the log of its attempts
    \* ---- completeness validator (SpecValidate)
    validation      \* a check_completeness call: document, template, result

transformVars == <<controls, overrides, hashSeed, review_areas, consolidated, outcomes,
                   restarted>>
storeVars == <<bucket, run, lastPut, lastCall>>

fetchVars == <<fetcher, requests, call>>

validatorVars == <<validation>>

vars == <<transformVars, now, storeVars, fetchVars, validatorVars>>

-----------------------------------------------------------------------------
(* Bounds of the model *)

MaxRecords == 2     \* longest record list handed to the transformer
MaxSeed == 1        \* hash seeds 0..MaxSeed
MaxTime == 3        \* the clock runs 0..MaxTime (ticks)
MaxGap == 1         \* the most ticks between two transform calls

-----------------------------------------------------------------------------
(* Python values *)

None == "None"                 \* Python None where the other values are strings

\* A text value of a JSON object: a string (a sequence of fragments, so that
\* `kw in text` is decidable), JSON null, or an absent key.
Str(frags) == [t |-> "str", v |-> frags]
Null == [t |-> "null", v |-> <<>>]
Absent == [t |-> "absent", v |-> <<>>]

RECURSIVE Join(_)
Join(toks) == IF toks = <<>> THEN "" ELSE Head(toks) \o Join(Tail(toks))

Range(f) == {f[x] : x \in DOMAIN f}
Min(S) == CHOOSE m \in S : \A n \in S : m <= n

RECURSIVE SelectIn(_, _)
\* the elements of the sequence s that are in S, in the order of s
SelectIn(s, S) ==
    IF s = <<>> THEN <<>>
    ELSE IF Head(s) \in S THEN <<Head(s)>> \o SelectIn(Tail(s), S)
    ELSE SelectIn(Tail(s), S)

-----------------------------------------------------------------------------
(* src/services/riskuity_control_mapping.py *)

EnDash == "{U+2013}"    \* stands for the en-dash character

RISKUITY_PREFIX_TO_JSON_AREA ==
    ("LEGAL" :> "Legal")
 @@ ("FINANCIAL MANAGEMENT" :> "Financial Management and Capacity")
 @@ ("FINANCIAL MANAGEMENT AND CAPACITY" :> "Financial Management and Capacity")
 @@ ("TECHNICAL CAPACITY AWARD MANAGEMENT" :> "Technical Capacity - Award Management")
 @@ (("TECHNICAL CAPACITY " \o EnDash \o " AWARD MANAGEMENT")
        :> "Technical Capacity - Award Management")
 @@ ("TECHNICAL CAPACITY PROGRAM MANAGEMENT"
        :> "Technical Capacity - Program Management and Subrecipient Oversight")
 @@ (("TECHNICAL CAPACITY " \o EnDash \o " PROGRAM MANAGEMENT")
        :> "Technical Capacity - Program Management and Subrecipient Oversight")
 @@ ("TECHNICAL CAPACITY PROJECT MANAGEMENT" :> "Technical Capacity - Project Management")
 @@ (("TECHNICAL CAPACITY " \o EnDash \o " PROJECT MANAGEMENT")
        :> "Technical Capacity - Project Management")
 @@ ("TRANSIT ASSET MANAGEMENT" :> "Transit Asset Management")
 @@ ("SATISFACTORY CONTINUING CONTROL" :> "Satisfactory Continuing Control")
 @@ ("MAINTENANCE" :> "Maintenance")
 @@ ("PROCUREMENT" :> "Procurement")
 @@ ("ADA GENERAL" :> "Americans with Disabilities Act (ADA) - General")
 @@ ("ADA COMPLEMENTARY PARATRANSIT"
        :> "Americans with Disabilities Act (ADA) - Complementary Paratransit")
 @@ ("SCHOOL BUS" :> "School Bus")
 @@ ("CHARTER BUS" :> "Charter Bus")
 @@ ("DRUG FREE WORKPLACE ACT" :> "Drug-Free Workplace Act")
 @@ ("DRUG-FREE WORKPLACE ACT" :> "Drug-Free Workplace Act")
 @@ ("DRUG AND ALCOHOL PROGRAM" :> "Drug and Alcohol Program")
 @@ ("SECTION 5307 PROGRAM REQUIREMENTS" :> "Section 5307 Program Requirements")
 @@ ("SECTION 5310 PROGRAM REQUIREMENTS" :> "Section 5310 Program Requirements")
 @@ ("SECTION 5311 PROGRAM REQUIREMENTS" :> "Section 5311 Program Requirements")
 @@ ("PUBLIC TRANSPORTATION AGENCY SAFETY PLAN"
        :> "Public Transportation Agency Safety Plan (PTASP)")
 @@ ("PTASP" :> "Public Transportation Agency Safety Plan (PTASP)")
 @@ ("CYBERSECURITY" :> "Cybersecurity")

\* Python's sorted() on the review-area names: their order by code point.
SortedNames == <<
    "Americans with Disabilities Act (ADA) - Complementary Paratransit",
    "Americans with Disabilities Act (ADA) - General",
    "Charter Bus",
    "Cybersecurity",
    "Drug and Alcohol Program",
    "Drug-Free Workplace Act",
    "Financial Management and Capacity",
    "Legal",
    "Maintenance",
    "Procurement",
    "Public Transportation Agency Safety Plan (PTASP)",
    "Satisfactory Continuing Control",
    "School Bus",
    "Section 5307 Program Requirements",
    "Section 5310 Program Requirements",
    "Section 5311 Program Requirements",
    "Technical Capacity - Award Management",
    "Technical Capacity - Program Management and Subrecipient Oversight",
    "Technical Capacity - Project Management",
    "Title VI",
    "Transit Asset Management" >>

sorted(S) == SelectIn(SortedNames, S)

\* A control name is a sequence of tokens: words, single blanks " " and ":".
IsSpace(t) == t = " "

\* re.match(r'^(.+?)\s*:', name): the lengths k >= 1 of a group that is
\* followed by blanks and a colon; the lazy group takes the least.
GroupEnds(name) ==
    {k \in 1..Len(name) :
        \E p \in (k + 1)..Len(name) :
            /\ name[p] = ":"
            /\ \A j \in (k + 1)..(p - 1) : IsSpace(name[j])}

RECURSIVE LStrip(_)
LStrip(s) == IF s # <<>> /\ IsSpace(Head(s)) THEN LStrip(Tail(s)) ELSE s

RECURSIVE RStrip(_)
RStrip(s) ==
    IF s # <<>> /\ IsSpace(s[Len(s)]) THEN RStrip(SubSeq(s, 1, Len(s) - 1)) ELSE s

strip(s) == RStrip(LStrip(s))

RECURSIVE CollapseSpaces(_)
\* re.sub(r'\s+', ' ', prefix)
CollapseSpaces(s) ==
    IF Len(s) < 2 THEN s
    ELSE IF IsSpace(s[1]) /\ IsSpace(s[2]) THEN CollapseSpaces(Tail(s))
    ELSE <<Head(s)>> \o CollapseSpaces(Tail(s))

extract_control_prefix(control_name) ==
    IF control_name = <<>> THEN None
    ELSE IF GroupEnds(control_name) = {} THEN None
    ELSE Join(CollapseSpaces(strip(SubSeq(control_name, 1, Min(GroupEnds(control_name))))))

map_to_json_review_area(control_name) ==
    LET prefix == extract_control_prefix(control_name) IN
    IF prefix = None \/ prefix = "" THEN None
    ELSE IF prefix \in DOMAIN RISKUITY_PREFIX_TO_JSON_AREA
         THEN RISKUITY_PREFIX_TO_JSON_AREA[prefix]
         ELSE None

get_all_json_review_areas ==
    sorted(Range(RISKUITY_PREFIX_TO_JSON_AREA) \cup {"Title VI"})

-----------------------------------------------------------------------------
(* app/services/data_transformer.py: records and the per-record classifier *)

\* `text.lower()` on the fragments a text is made of
LowerFragment(f) ==
    CASE f = "FAIL" -> "fail"
      [] f = "Deficien" -> "deficien"
      [] f = "Not Applicable" -> "not applicable"
      [] f = "N/A" -> "n/a"
      [] OTHER -> f

lower(frags) == [i \in DOMAIN frags |-> LowerFragment(frags[i])]

\* `word in text` for a text given by its fragments: the vocabulary is chosen
\* so that a keyword occurs in a text exactly as one of its fragments
Contains(frags, word) == \E i \in DOMAIN frags : frags[i] = word

CommentDeficiencyWords == {"fail", "deficien", "non-complian", "violation"}
InstanceDeficiencyWords == {"deficien", "fail", "non-complian"}
NotApplicableWords == {"not applicable", "n/a"}

\* a slip in the rule order: the not-applicable phrases are looked for first
_map_status_to_finding_NAFirst(status, assessment) ==
    IF assessment.comments.t = "null" THEN "AttributeError"
    ELSE
    LET comments == lower(assessment.comments.v)
        instances == assessment.instances
        viaInstances ==
            IF instances = <<>> THEN "ND"
            ELSE IF instances[1].t = "null" THEN "AttributeError"
            ELSE LET review_status == lower(instances[1].v) IN
                 IF review_status = <<>> THEN "ND"
                 ELSE IF \E w \in NotApplicableWords : Contains(review_status, w)
                      THEN "NA"
                 ELSE IF \E w \in InstanceDeficiencyWords : Contains(review_status, w)
                      THEN "D"
                 ELSE "ND"
    IN  IF comments # <<>> /\ \E w \in NotApplicableWords : Contains(comments, w)
        THEN "NA"
        ELSE IF comments # <<>> /\ \E w \in CommentDeficiencyWords : Contains(comments, w)
        THEN "D"
        ELSE viaInstances

\* data_transformer.py:332-379; "AttributeError" stands for the exception
\* raised by None.lower() when a text field is JSON null
_map_status_to_finding(status, assessment) ==
    IF assessment.comments.t = "null" THEN "AttributeError"
    ELSE
    LET comments == lower(assessment.comments.v)
        instances == assessment.instances
        viaStatus == "ND"
        viaInstances ==
            IF instances = <<>> THEN viaStatus
            ELSE IF instances[1].t = "null" THEN "AttributeError"
            ELSE LET review_status == lower(instances[1].v) IN
                 IF review_status = <<>> THEN viaStatus
                 ELSE IF \E w \in InstanceDeficiencyWords : Contains(review_status, w)
                      THEN "D"
                 ELSE IF \E w \in NotApplicableWords : Contains(review_status, w)
                      THEN "NA"
                 ELSE viaStatus
    IN  IF comments # <<>> /\ \E w \in CommentDeficiencyWords : Contains(comments, w)
        THEN "D"
        ELSE IF comments # <<>> /\ \E w \in NotApplicableWords : Contains(comments, w)
        THEN "NA"
        ELSE viaInstances

\* a slip in the resolution rule: one NotApplicable record makes the area NA
OverallFinding_AnyNA(findings) ==
    IF \E i \in DOMAIN findings : findings[i] = "D" THEN "D"
    ELSE IF \E i \in DOMAIN findings : findings[i] = "NA" THEN "NA"
    ELSE "ND"

\* data_transformer.py:399-425: the finding of a review area from the findings
\* of its controls
OverallFinding(findings) ==
    IF SelectSeq(findings, LAMBDA f : f = "D") # <<>> THEN "D"
    ELSE IF \A i \in DOMAIN findings : findings[i] = "NA" THEN "NA"
    ELSE "ND"

\* a slip in the aggregation: the description is preferred over the comment
DeficiencyLine_DescriptionFirst(dc) ==
    IF dc.assessment.description.t = "str" /\ dc.assessment.description.v # <<>>
    THEN <<Join(dc.control_name) \o ": " \o Join(dc.assessment.description.v)>>
    ELSE IF dc.assessment.comments.t = "str" /\ dc.assessment.comments.v # <<>>
    THEN <<Join(dc.control_name) \o ": " \o Join(dc.assessment.comments.v)>>
    ELSE <<>>

\* data_transformer.py:406-416: what a deficient control appends to
\* deficiency_descriptions: one line, or nothing when it has no text
DeficiencyLine(dc) ==
    IF dc.assessment.comments.t = "str" /\ dc.assessment.comments.v # <<>>
    THEN <<Join(dc.control_name) \o ": " \o Join(dc.assessment.comments.v)>>
    ELSE IF dc.assessment.description.t = "str" /\ dc.assessment.description.v # <<>>
    THEN <<Join(dc.control_name) \o ": " \o Join(dc.assessment.description.v)>>
    ELSE <<>>

\* data_transformer.py:381-435
_consolidate_review_area(review_area_name, ctrls) ==
    LET deficient == SelectSeq(ctrls, LAMBDA c : c.finding = "D")
        Lines[i \in 0..Len(deficient)] ==
            IF i = 0 THEN <<>> ELSE Lines[i - 1] \o DeficiencyLine(deficient[i])
        JoinLines[i \in 0..Len(Lines[Len(deficient)])] ==
            IF i = 0 THEN ""
            ELSE IF i = 1 THEN Lines[Len(deficient)][1]
            ELSE JoinLines[i - 1] \o "\n" \o Lines[Len(deficient)][i]
        lines == Lines[Len(deficient)]
        overall_finding == OverallFinding([i \in DOMAIN ctrls |-> ctrls[i].finding])
        description ==
            IF deficient # <<>>
            THEN IF lines # <<>> THEN JoinLines[Len(lines)]
                 ELSE "Deficiency found in one or more controls"
            ELSE None
    IN  [review_area |-> review_area_name,
         finding |-> overall_finding,
         deficiency_code |-> None,
         description |-> description,
         corrective_action |-> None,
         due_date |-> None,
         date_closed |-> None]

\* data_transformer.py:320-328: the entry appended for a missing review area
MissingAreaEntry(missing_area) ==
    [review_area |-> missing_area,
     finding |-> "NA",
     deficiency_code |-> None,
     description |-> None,
     corrective_action |-> None,
     due_date |-> None,
     date_closed |-> None]

\* a slip in the loop: a record with no review area ends the consolidation
ProcessRecord_UnmappedRaises(project_control) ==
    IF project_control.kind # "dict" THEN [r |-> "raise"]
    ELSE IF project_control.control.t = "null" THEN [r |-> "error"]
    ELSE IF map_to_json_review_area(project_control.control.name) = None
    THEN [r |-> "raise"]
    ELSE IF project_control.assessment.t = "null" THEN [r |-> "error"]
    ELSE LET review_status == _map_status_to_finding(project_control.assessment.status,
                                                     project_control.assessment) IN
         IF review_status = "AttributeError" THEN [r |-> "error"]
         ELSE [r |-> "entry",
               area |-> map_to_json_review_area(project_control.control.name),
               entry |-> [assessment |-> project_control.assessment,
                          finding |-> review_status,
                          control_name |-> project_control.control.name]]

\* data_transformer.py:242-277, one iteration of the loop over the records:
\*   "raise"    the record is no dict: .get fails, and fails again in the handler
\*   "error"    an exception the handler logs; the record is skipped
\*   "unmapped" no review area for the control name; the record is skipped
\*   "entry"    the record joins the group of its review area
ProcessRecord(project_control) ==
    IF project_control.kind # "dict" THEN [r |-> "raise"]
    ELSE IF project_control.control.t = "null" THEN [r |-> "error"]
    ELSE
    LET control_name ==
            IF project_control.control.t = "absent" THEN <<>>
            ELSE project_control.control.name
        assessment == project_control.assessment
        json_review_area == map_to_json_review_area(control_name)
    IN  IF json_review_area = None THEN [r |-> "unmapped"]
        ELSE IF assessment.t = "null" THEN [r |-> "error"]
        ELSE LET review_status == _map_status_to_finding(assessment.status, assessment) IN
             IF review_status = "AttributeError" THEN [r |-> "error"]
             ELSE [r |-> "entry",
                   area |-> json_review_area,
                   entry |-> [assessment |-> assessment,
                              finding |-> review_status,
                              control_name |-> control_name]]

\* review_areas[json_review_area].append(...) on a dict in insertion order
AppendToGroup(groups, area, entry) ==
    IF \E i \in DOMAIN groups : groups[i].area = area
    THEN [i \in DOMAIN groups |->
            IF groups[i].area = area
            THEN [groups[i] EXCEPT !.controls = Append(@, entry)]
            ELSE groups[i]]
    ELSE Append(groups, [area |-> area, controls |-> <<entry>>])

RECURSIVE GroupControls(_, _)
\* data_transformer.py:239-277: the groups after the loop, or the exception
GroupControls(recs, groups) ==
    IF recs = <<>> THEN [raised |-> FALSE, groups |-> groups]
    ELSE LET p == ProcessRecord(Head(recs)) IN
         IF p.r = "raise" THEN [raised |-> TRUE, groups |-> groups]
         ELSE IF p.r = "entry"
              THEN GroupControls(Tail(recs), AppendToGroup(groups, p.area, p.entry))
         ELSE GroupControls(Tail(recs), groups)

\* Iteration over a set of strings follows the hashes of the running process:
\* the order is fixed within a process and differs between processes.  The
\* orders of the model are the rotations of the sorted order.
SetIterationOrder(seed, S) ==
    LET all == SortedNames
        k == seed % Len(all)
    IN  SelectIn(SubSeq(all, k + 1, Len(all)) \o SubSeq(all, 1, k), S)

\* a slip in the synthesis: the missing review areas are not appended
ConsolidateGroups_NoSynthesis(groups, seed) ==
    [i \in DOMAIN groups |->
        _consolidate_review_area(groups[i].area, groups[i].controls)]

\* data_transformer.py:289-330, given the groups
ConsolidateGroups(groups, seed) ==
    LET per_area == [i \in DOMAIN groups |->
                        _consolidate_review_area(groups[i].area, groups[i].controls)]
        existing_areas == {groups[i].area : i \in DOMAIN groups}
        all_fy26_areas == Range(get_all_json_review_areas)
        missing_areas == all_fy26_areas \ existing_areas
        order == SetIterationOrder(seed, missing_areas)
    IN  per_area \o [i \in DOMAIN order |-> MissingAreaEntry(order[i])]

\* data_transformer.py:212-330
_consolidate_assessments_by_review_area(riskuity_project_controls, seed) ==
    LET g == GroupControls(riskuity_project_controls, <<>>) IN
    IF g.raised THEN [raised |-> TRUE, groups |-> g.groups, result |-> <<>>]
    ELSE [raised |-> FALSE, groups |-> g.groups,
          result |-> ConsolidateGroups(g.groups, seed)]

-----------------------------------------------------------------------------
(* app/services/data_transformer.py: header blocks, metadata, transform *)

SCHEMA_VERSION == "1.0"

\* str(n) for the subject identifiers of the model
str(n) == CASE n = 33 -> "33" [] n = 34 -> "34" [] OTHER -> "?"

\* datetime.isoformat() + "Z", and the way back:
\* datetime.fromisoformat(s.replace("Z", "+00:00")).replace(tzinfo=None)
IsoZ(t) == [iso |-> t, suffix |-> "Z"]
FromIsoZ(s) == s.iso

EmptyDict == [k \in {} |-> ""]

\* a dict value that int() is applied to: an int, or a string
IntV(n) == [t |-> "int", v |-> n]
StrV(s) == [t |-> "str", v |-> s]

\* int(x): the integer, or the exception int() raises
DecimalLiterals == ("5" :> 5) @@ ("07" :> 7)
int(x) ==
    IF x.t = "int" THEN [ok |-> TRUE, v |-> x.v]
    ELSE IF x.v \in DOMAIN DecimalLiterals THEN [ok |-> TRUE, v |-> DecimalLiterals[x.v]]
    ELSE [ok |-> FALSE, v |-> 0]

\* d.get(key, default)
Get(d, key, default) == IF key \in DOMAIN d THEN d[key] ELSE default

\* the first key of `keys` that d[key] raises KeyError for, or None
RECURSIVE FirstMissing(_, _)
FirstMissing(keys, d) ==
    IF keys = <<>> THEN None
    ELSE IF Head(keys) \notin DOMAIN d THEN Head(keys)
    ELSE FirstMissing(Tail(keys), d)

Raise(error_code, cause) == [ok |-> FALSE, error_code |-> error_code, cause |-> cause]
Return(v) == [ok |-> TRUE, v |-> v]

\* data_transformer.py:167-210
_extract_project_metadata(project_control) ==
    IF project_control.kind # "dict" \/ project_control.project.t = "null"
    THEN EmptyDict      \* .get raises inside the try: the handler returns {}
    ELSE LET project_info == project_control.project IN
         ("project_id" :> project_info.id)
      @@ ("project_name" :> project_info.name)
      @@ ("region_number" :> IntV(1))
      @@ ("review_type" :> "Triennial Review")
      @@ ("recipient_name" :> project_info.name)
      @@ ("recipient_city_state" :> "")
      @@ ("recipient_id" :> project_info.id)

ProjectRequired ==
    <<"region_number", "review_type", "recipient_name", "recipient_city_state",
      "recipient_id">>

\* data_transformer.py:437-488
_transform_project(project_data) ==
    LET missing == FirstMissing(ProjectRequired, project_data) IN
    IF "region_number" \notin DOMAIN project_data
    THEN Raise("MISSING_PROJECT_FIELD", "region_number")
    ELSE IF ~int(project_data["region_number"]).ok
    THEN Raise("ValueError", "region_number")
    ELSE IF missing # None THEN Raise("MISSING_PROJECT_FIELD", missing)
    ELSE Return(
           ("region_number" :> int(project_data["region_number"]).v)
        @@ ("review_type" :> project_data["review_type"])
        @@ ("recipient_name" :> project_data["recipient_name"])
        @@ ("recipient_city_state" :> project_data["recipient_city_state"])
        @@ ("recipient_id" :> project_data["recipient_id"])
        @@ ("site_visit_dates" :> Get(project_data, "site_visit_dates", "TBD"))
        @@ ("exit_conference_format" :> Get(project_data, "exit_conference_format", "virtual"))
        @@ ("recipient_acronym" :> Get(project_data, "recipient_acronym", ""))
        @@ ("recipient_website" :> Get(project_data, "recipient_website", ""))
        @@ ("site_visit_start_date" :> Get(project_data, "site_visit_start_date", ""))
        @@ ("site_visit_end_date" :> Get(project_data, "site_visit_end_date", ""))
        @@ ("report_date" :> Get(project_data, "report_date", "")))

ContractorRequired ==
    <<"lead_reviewer_name", "contractor_name", "lead_reviewer_phone",
      "lead_reviewer_email">>

\* data_transformer.py:490-508
_transform_contractor(project_data) ==
    LET missing == FirstMissing(ContractorRequired, project_data) IN
    IF missing # None THEN Raise("MISSING_CONTRACTOR_FIELD", missing)
    ELSE Return([k \in Range(ContractorRequired) |-> project_data[k]])

FtaPmRequired ==
    <<"fta_program_manager_name", "fta_program_manager_title",
      "fta_program_manager_phone", "fta_program_manager_email">>

\* data_transformer.py:510-529
_transform_fta_pm(project_data) ==
    LET missing == FirstMissing(FtaPmRequired, project_data) IN
    IF missing # None THEN Raise("MISSING_FTA_PM_FIELD", missing)
    ELSE Return([k \in Range(FtaPmRequired) |-> project_data[k]])

\* a slip in the count: every area that is not NonDeficient is counted
_calculate_metadata_CountsNA(assessments, erf_items) ==
    LET deficient_assessments == SelectSeq(assessments, LAMBDA a : a.finding # "ND")
        deficiency_count == Len(deficient_assessments)
    IN  [has_deficiencies |-> deficiency_count > 0,
         deficiency_count |-> deficiency_count,
         deficiency_areas |-> [i \in DOMAIN deficient_assessments |->
                                  deficient_assessments[i].review_area],
         erf_count |-> Len(erf_items),
         erf_areas |-> <<>>,
         total_review_areas |-> Len(assessments)]

\* data_transformer.py:614-658
_calculate_metadata(assessments, erf_items) ==
    LET deficient_assessments == SelectSeq(assessments, LAMBDA a : a.finding = "D")
        deficiency_count == Len(deficient_assessments)
    IN  [has_deficiencies |-> deficiency_count > 0,
         deficiency_count |-> deficiency_count,
         deficiency_areas |-> [i \in DOMAIN deficient_assessments |->
                                  deficient_assessments[i].review_area],
         erf_count |-> Len(erf_items),
         erf_areas |-> <<>>,
         total_review_areas |-> Len(assessments)]

\* the message of the exception a header block or the consolidation raised
\* (lines 483-488, 503-508, 524-529; int() and .get for the other two)
MessageOf(inner) ==
    CASE inner.error_code = "MISSING_PROJECT_FIELD"
            -> "Missing required project field: '" \o inner.cause \o "'"
      [] inner.error_code = "MISSING_CONTRACTOR_FIELD"
            -> "Missing required contractor field: '" \o inner.cause \o "'"
      [] inner.error_code = "MISSING_FTA_PM_FIELD"
            -> "Missing required FTA PM field: '" \o inner.cause \o "'"
      [] inner.error_code = "ValueError" -> "invalid literal for int() with base 10"
      [] OTHER -> "'str' object has no attribute 'get'"

\* str(e): CORTAPError.__str__ (exceptions.py:42-43) puts the error code in
\* front of the message; a built-in exception gives its message
StrOfException(inner) ==
    IF inner.error_code \in {"MISSING_PROJECT_FIELD", "MISSING_CONTRACTOR_FIELD",
                             "MISSING_FTA_PM_FIELD"}
    THEN "[" \o inner.error_code \o "] " \o MessageOf(inner)
    ELSE MessageOf(inner)

\* a slip in the handler: the exception caught is raised again as it is
TransformError_Reraised(project_id, inner) ==
    [kind |-> inner.error_code,
     error_code |-> inner.error_code,
     project_id |-> project_id,
     cause |-> inner.error_code,
     field |-> inner.cause,
     message |-> MessageOf(inner),
     details |-> [project_id |-> 0, error |-> ""]]

\* the ValidationError transform wraps every failure in (lines 151-165);
\* cause and field tell the exception it was raised from
TransformError(project_id, inner) ==
    [kind |-> "ValidationError",
     error_code |-> "DATA_TRANSFORMATION_ERROR",
     project_id |-> project_id,
     cause |-> inner.error_code,
     field |-> inner.cause,
     message |-> "Failed to transform Riskuity data: " \o StrOfException(inner),
     details |-> [project_id |-> project_id, error |-> StrOfException(inner)]]

\* data_transformer.py:68-165.  `project_metadata` is [isNone, d]; the clock
\* reading and the process's hash seed are parameters.
transform(project_id, riskuity_project_controls, project_metadata, seed, clock) ==
    LET given == IF project_metadata.isNone THEN EmptyDict ELSE project_metadata.d
        md == IF riskuity_project_controls # <<>> /\ given = EmptyDict
              THEN _extract_project_metadata(riskuity_project_controls[1])
              ELSE given
        project == _transform_project(md)
        contractor == _transform_contractor(md)
        fta_pm == _transform_fta_pm(md)
        c == _consolidate_assessments_by_review_area(riskuity_project_controls, seed)
    IN  IF ~project.ok THEN TransformError(project_id, project)
        ELSE IF ~contractor.ok THEN TransformError(project_id, contractor)
        ELSE IF ~fta_pm.ok THEN TransformError(project_id, fta_pm)
        ELSE IF c.raised
        THEN TransformError(project_id, Raise("AttributeError", "project_control"))
        ELSE [kind |-> "doc",
              project_id |-> str(project_id),
              generated_at |-> IsoZ(clock),
              data_version |-> SCHEMA_VERSION,
              project |-> project.v,
              contractor |-> contractor.v,
              fta_program_manager |-> fta_pm.v,
              assessments |-> c.result,
              erf_items |-> <<>>,
              metadata |-> _calculate_metadata(c.result, <<>>)]

-----------------------------------------------------------------------------
(* Inputs of the consolidation engine *)

Assessment(status, comments, description, instances) ==
    [t |-> "dict", status |-> status, comments |-> comments,
     description |-> description, instances |-> instances]

NullAssessment == [t |-> "null", status |-> "", comments |-> Absent,
                   description |-> Absent, instances |-> <<>>]

ProjectInfo == [t |-> "dict", id |-> "33", name |-> "Metro Transit"]

ProjectControl(id, name, assessment) ==
    [kind |-> "dict", id |-> id,
     control |-> [t |-> "dict", name |-> name],
     assessment |-> assessment,
     project |-> ProjectInfo]

\* an element of the list that is no JSON object (a string, a number, null)
NotADict ==
    [kind |-> "scalar", id |-> "",
     control |-> [t |-> "absent", name |-> <<>>],
     assessment |-> NullAssessment,
     project |-> ProjectInfo]

RecordShapes ==
    { \* "LEGAL : L2", a comment that fails and says "N/A" as well: D
      ProjectControl("4311", <<"LEGAL", " ", ":", " ", "L2">>,
          Assessment("Complete", Str(<<"FAIL", "ed", " ", "N/A", " ", "check">>),
                     Str(<<"legal", " ", "basis">>), <<>>)),
      \* "LEGAL:L3", complete, no comment: ND
      ProjectControl("4312", <<"LEGAL", ":", "L3">>,
          Assessment("Complete", Absent, Str(<<"charter">>), <<>>)),
      \* "LEGAL : L4", comment "N/A": NA
      ProjectControl("4313", <<"LEGAL", " ", ":", " ", "L4">>,
          Assessment("Not Started", Str(<<"N/A">>), Absent, <<>>)),
      \* "SCHOOL  BUS : SB1", no comment, instance review status "Deficien" "t":
      \* D by the instance, described by the description
      ProjectControl("4320", <<"SCHOOL", " ", " ", "BUS", " ", ":", " ", "SB1">>,
          Assessment("In Progress", Str(<<>>), Str(<<"bus", " ", "use">>),
                     <<Str(<<"Deficien", "t">>)>>)),
      \* "PROCUREMENT : P12", no comment, description null, instance review
      \* status "fail": D by the instance, with no text of its own
      ProjectControl("4330", <<"PROCUREMENT", " ", ":", " ", "P12">>,
          Assessment("In Progress", Absent, Null, <<Str(<<"fail">>)>>)),
      \* "TITLE VI : T1": no entry in the mapping table
      ProjectControl("4340", <<"TITLE", " ", "VI", " ", ":", " ", "T1">>,
          Assessment("Complete", Str(<<"violation">>), Absent, <<>>)),
      \* "LEGAL L9": no colon, no prefix
      ProjectControl("4341", <<"LEGAL", " ", "L9">>,
          Assessment("Complete", Str(<<"deficien", "t">>), Absent, <<>>)),
      \* "PROCUREMENT : P13" with "comments": null
      ProjectControl("4331", <<"PROCUREMENT", " ", ":", " ", "P13">>,
          Assessment("Complete", Null, Absent, <<>>)),
      \* an element that is no JSON object
      NotADict }

RecordLists == UNION {[1..n -> RecordShapes] : n \in 0..MaxRecords}

FullOverrides ==
       ("region_number" :> IntV(5))
    @@ ("review_type" :> "Triennial Review")
    @@ ("recipient_name" :> "Metro Transit")
    @@ ("recipient_city_state" :> "Springfield, IL")
    @@ ("recipient_id" :> "1057")
    @@ ("lead_reviewer_name" :> "R. Lee")
    @@ ("contractor_name" :> "Acme Reviews")
    @@ ("lead_reviewer_phone" :> "555-0100")
    @@ ("lead_reviewer_email" :> "lee@acme.example")
    @@ ("fta_program_manager_name" :> "P. Diaz")
    @@ ("fta_program_manager_title" :> "Program Manager")
    @@ ("fta_program_manager_phone" :> "555-0101")
    @@ ("fta_program_manager_email" :> "diaz@fta.example")

Without(d, keys) == [k \in (DOMAIN d) \ keys |-> d[k]]

OverrideChoices ==
    { [isNone |-> TRUE, d |-> EmptyDict],
      [isNone |-> FALSE, d |-> FullOverrides],
      [isNone |-> FALSE, d |-> Without(FullOverrides, {"lead_reviewer_email"})],
      [isNone |-> FALSE, d |-> Without(FullOverrides, Range(ProjectRequired))] }

Seeds == 0..MaxSeed

ProjectId == 33

-----------------------------------------------------------------------------
(* SpecTransform: the consolidation engine on bounded inputs *)

StoreIdle ==
    /\ fetcher = <<>>
    /\ requests = <<>>
    /\ call = <<>>
    /\ bucket = <<>>
    /\ run = <<>>
    /\ lastPut = <<>>
    /\ lastCall = <<>>

InitTransform ==
    /\ StoreIdle
    /\ validation = <<>>
    /\ controls \in RecordLists
    /\ overrides \in OverrideChoices
    /\ hashSeed \in Seeds
    /\ review_areas = <<>>
    /\ consolidated = [run |-> FALSE, raised |-> FALSE, result |-> <<>>]
    /\ outcomes = <<>>
    /\ restarted = FALSE
    /\ now = 0

\* _consolidate_assessments_by_review_area(controls, correlation_id)
ConsolidateCall ==
    /\ ~consolidated.run
    /\ outcomes = <<>>
    /\ LET c == _consolidate_assessments_by_review_area(controls, hashSeed) IN
        /\ review_areas' = c.groups
        /\ consolidated' = [run |-> TRUE, raised |-> c.raised, result |-> c.result]
    /\ UNCHANGED <<controls, overrides, hashSeed, outcomes, restarted, now, storeVars,
                   fetchVars, validatorVars>>

\* transform(project_id, controls, overrides, correlation_id)
TransformCall ==
    /\ Len(outcomes) < 2
    /\ outcomes' = Append(outcomes, transform(ProjectId, controls, overrides, hashSeed, now))
    /\ UNCHANGED <<controls, overrides, hashSeed, review_areas, consolidated, restarted, now,
                   storeVars, fetchVars, validatorVars>>

\* the process ends and a new one starts, with a hash seed of its own
Restart ==
    /\ Len(outcomes) = 1
    /\ ~restarted
    /\ \E s \in Seeds : hashSeed' = s
    /\ restarted' = TRUE
    /\ UNCHANGED <<controls, overrides, review_areas, consolidated, outcomes, now, storeVars,
                   fetchVars, validatorVars>>

\* time passes between the calls
TickTransform ==
    /\ Len(outcomes) = 1
    /\ now < MaxGap
    /\ now' = now + 1
    /\ UNCHANGED <<controls, overrides, hashSeed, review_areas, consolidated, outcomes,
                   restarted, storeVars, fetchVars,
                   validatorVars>>

NextTransform == ConsolidateCall \/ TransformCall \/ Restart \/ TickTransform

SpecTransform == InitTransform /\ [][NextTransform]_vars

-----------------------------------------------------------------------------
(* Claims about the consolidation engine, checked under SpecTransform *)

ConsolidationReturned == consolidated.run /\ ~consolidated.raised

\* the entries of the consolidated collection for a review area
EntriesOf(area) ==
    {i \in DOMAIN consolidated.result : consolidated.result[i].review_area = area}

GroupFindings(g) == {g.controls[i].finding : i \in DOMAIN g.controls}

\* C1: every group of records resolves to one finding for its review area:
\* Deficient if any record of the group is Deficient, else NotApplicable if
\* all its records are NotApplicable, else NonDeficient.
C1_ResolveFinding ==
    ConsolidationReturned =>
        \A g \in Range(review_areas) :
            /\ g.controls # <<>>
            /\ \A i \in EntriesOf(g.area) :
                LET f == consolidated.result[i].finding IN
                /\ "D" \in GroupFindings(g) => f = "D"
                /\ ("D" \notin GroupFindings(g) /\ GroupFindings(g) = {"NA"}) => f = "NA"
                /\ ("D" \notin GroupFindings(g) /\ GroupFindings(g) # {"NA"}) => f = "ND"
            /\ EntriesOf(g.area) # {}

\* a group mixing NotApplicable and NonDeficient records was resolved
C1_Witness ==
    /\ ConsolidationReturned
    /\ \E g \in Range(review_areas) :
        /\ GroupFindings(g) = {"NA", "ND"}
        /\ \E i \in EntriesOf(g.area) : consolidated.result[i].finding = "ND"

\* the records of the input that the mapping table maps to a review area
MappedTo(area) ==
    {i \in DOMAIN controls :
        /\ controls[i].kind = "dict"
        /\ controls[i].control.t = "dict"
        /\ map_to_json_review_area(controls[i].control.name) = area}

\* C2: whatever the record list, the collection returned by the consolidation
\* has exactly N elements, N the number of canonical review areas, every
\* canonical name appears exactly once, and an area with no mapped record is
\* synthesized with finding NA and every other field null.
C2_ExactlyNAreas ==
    ConsolidationReturned =>
        /\ Len(consolidated.result) = Len(get_all_json_review_areas)
        /\ \A area \in Range(get_all_json_review_areas) :
            /\ Cardinality(EntriesOf(area)) = 1
            /\ MappedTo(area) = {} =>
                \A i \in EntriesOf(area) :
                    consolidated.result[i] = MissingAreaEntry(area)
        /\ \A i \in DOMAIN consolidated.result :
            consolidated.result[i].review_area \in Range(get_all_json_review_areas)

\* a list with one mapped and one unmapped record was consolidated
C2_Witness ==
    /\ ConsolidationReturned
    /\ Len(controls) = 2
    /\ Len(review_areas) = 1
    /\ \E i \in DOMAIN controls :
        /\ controls[i].kind = "dict"
        /\ map_to_json_review_area(controls[i].control.name) = None
    /\ Len(consolidated.result) = Len(get_all_json_review_areas)

\* a document with its generation timestamp masked
WithoutGeneratedAt(doc) == [doc EXCEPT !.generated_at = IsoZ(0)]

\* C3: two transform calls with the same subject, records and overrides give
\* documents that are identical, the order of the review areas included,
\* except for generated_at.
C3_TransformIdempotent ==
    (Len(outcomes) = 2 /\ outcomes[1].kind = "doc" /\ outcomes[2].kind = "doc")
        => WithoutGeneratedAt(outcomes[1]) = WithoutGeneratedAt(outcomes[2])

\* a record whose category label has no entry in the mapping table
Unmapped(project_control) ==
    /\ project_control.kind = "dict"
    /\ project_control.control.t = "dict"
    /\ extract_control_prefix(project_control.control.name)
          \notin DOMAIN RISKUITY_PREFIX_TO_JSON_AREA

\* C17: a record whose category label has no entry in the mapping table is
\* left out of the consolidation: no group holds it, the groups and the
\* consolidated collection are those of the list without it (in the process
\* that ran the consolidation), and its presence never makes the
\* consolidation raise.
C17_UnmappedExcluded ==
    consolidated.run =>
        LET rest == SelectSeq(controls, LAMBDA rec : ~Unmapped(rec)) IN
        /\ \E seed \in Seeds :
              LET c == _consolidate_assessments_by_review_area(rest, seed) IN
              /\ consolidated.raised = c.raised
              /\ review_areas = c.groups
              /\ consolidated.result = c.result
            /\ \A g \in Range(review_areas) : \A i \in DOMAIN g.controls :
                    \A k \in DOMAIN controls :
                        Unmapped(controls[k]) => g.controls[i].control_name # controls[k].control.name

\* an unmapped record with a "violation" comment came before a compliant
\* Legal record: Legal resolved NonDeficient with no description
C17_Witness ==
    /\ ConsolidationReturned
    /\ Len(controls) = 2
    /\ Unmapped(controls[1])
    /\ controls[1].assessment.comments = Str(<<"violation">>)
    /\ Len(review_areas) = 1
    /\ review_areas[1].area = "Legal"
    /\ Len(review_areas[1].controls) = 1
    /\ \E i \in EntriesOf("Legal") :
          /\ consolidated.result[i].finding = "ND"
          /\ consolidated.result[i].description = None

\* the deficient records of a group, in the order of the record list
DeficientOf(g) == SelectSeq(g.controls, LAMBDA c : c.finding = "D")

HasComment(c) == c.assessment.comments.t = "str" /\ c.assessment.comments.v # <<>>

HasDescription(c) ==
    c.assessment.description.t = "str" /\ c.assessment.description.v # <<>>

\* the comment of a record when it has one, otherwise its description,
\* otherwise nothing
TextOf(c) ==
    IF HasComment(c) THEN Join(c.assessment.comments.v)
    ELSE IF HasDescription(c) THEN Join(c.assessment.description.v)
    ELSE ""

LineOf(c) == Join(c.control_name) \o ": " \o TextOf(c)

RECURSIVE JoinLinesOf(_)
JoinLinesOf(cs) ==
    IF cs = <<>> THEN ""
    ELSE IF Len(cs) = 1 THEN LineOf(cs[1])
    ELSE LineOf(cs[1]) \o "\n" \o JoinLinesOf(Tail(cs))

\* C18 as stated: the description of a review area that resolved Deficient
\* holds exactly one line per deficient record of the area, in the form
\* "<control name>: <text>", text being the comment when there is one and
\* otherwise the description; the other records contribute no line.
C18_OneLinePerDeficientRecord ==
    ConsolidationReturned =>
        \A g \in Range(review_areas) : \A i \in EntriesOf(g.area) :
            consolidated.result[i].finding = "D"
                => consolidated.result[i].description = JoinLinesOf(DeficientOf(g))

\* C18 amended: the description holds one such line per deficient record
\* that has a comment or a description, in record order; a deficient record
\* with neither contributes no line, and when no deficient record of the
\* area has any text the description is a fixed sentence.
C18_OneLinePerDescribedDeficientRecord ==
    ConsolidationReturned =>
        \A g \in Range(review_areas) : \A i \in EntriesOf(g.area) :
            consolidated.result[i].finding = "D"
                => LET described == SelectSeq(DeficientOf(g),
                                        LAMBDA c : HasComment(c) \/ HasDescription(c))
                   IN  consolidated.result[i].description =
                         IF described = <<>>
                         THEN "Deficiency found in one or more controls"
                         ELSE JoinLinesOf(described)

\* Legal resolved Deficient from a deficient record with a comment and a
\* description and a compliant record with a description: one line, the
\* deficient record's comment
C18_Witness ==
    /\ ConsolidationReturned
    /\ Len(review_areas) = 1
    /\ review_areas[1].area = "Legal"
    /\ Len(review_areas[1].controls) = 2
    /\ Len(DeficientOf(review_areas[1])) = 1
    /\ \A k \in 1..2 : HasDescription(review_areas[1].controls[k])
    /\ \E i \in EntriesOf("Legal") :
          /\ consolidated.result[i].finding = "D"
          /\ consolidated.result[i].description = "LEGAL : L2: FAILed N/A check"

\* the metadata that the first record of the list yields
ExtractedFromFirst ==
    IF controls = <<>> THEN EmptyDict ELSE _extract_project_metadata(controls[1])

GivenOverrides == IF overrides.isNone THEN EmptyDict ELSE overrides.d

\* C19: every header field is taken from the overrides when they hold it,
\* otherwise from the metadata extracted from the first record, otherwise
\* from a default.  So a field that the first record yields is never
\* reported missing, and a document carries the override of the field when
\* there is one and the extracted value when there is none.
C19_PerFieldFallback ==
    \A k \in DOMAIN outcomes : \A field \in DOMAIN ExtractedFromFirst :
        LET outcome == outcomes[k]
            source == IF field \in DOMAIN GivenOverrides
                      THEN GivenOverrides[field] ELSE ExtractedFromFirst[field]
        IN  /\ ~(outcome.kind = "ValidationError" /\ outcome.field = field)
            /\ (outcome.kind = "doc" /\ field \in DOMAIN outcome.project)
                 => outcome.project[field] =
                      IF field = "region_number" THEN int(source).v ELSE source

\* the metadata the header blocks are built from
HeaderSource == IF GivenOverrides # EmptyDict THEN GivenOverrides ELSE ExtractedFromFirst

RequiredHeaderFields == ProjectRequired \o ContractorRequired \o FtaPmRequired

MissingFieldCodes ==
    {"MISSING_PROJECT_FIELD", "MISSING_CONTRACTOR_FIELD", "MISSING_FTA_PM_FIELD"}

\* the message holds the quoted name of the field
NamesField(message, field) ==
    \E code \in MissingFieldCodes, block \in {"project", "contractor", "FTA PM"} :
        message = "Failed to transform Riskuity data: [" \o code
                  \o "] Missing required " \o block \o " field: '" \o field \o "'"

\* a document with every block and every field of the canonical schema
WholeDocument(doc) ==
    /\ doc.project_id = str(ProjectId)
    /\ doc.data_version = SCHEMA_VERSION
    /\ Range(ProjectRequired) \subseteq DOMAIN doc.project
    /\ DOMAIN doc.contractor = Range(ContractorRequired)
    /\ DOMAIN doc.fta_program_manager = Range(FtaPmRequired)
    /\ Len(doc.assessments) = Len(get_all_json_review_areas)
    /\ doc.metadata.total_review_areas = Len(doc.assessments)

\* C20: transform either returns a whole document or raises the
\* ValidationError DATA_TRANSFORMATION_ERROR whose details carry the
\* subject identifier and the text of the underlying exception; it raises
\* whenever a required header field is missing or a record is no object,
\* and when the cause is a missing required header field the message names
\* the first such field.
C20_FailsOnlyWithValidationError ==
    \A k \in DOMAIN outcomes :
        LET outcome == outcomes[k]
            first_missing == FirstMissing(RequiredHeaderFields, HeaderSource)
            broken == \E i \in DOMAIN controls : controls[i].kind # "dict"
        IN  /\ outcome.kind \in {"doc", "ValidationError"}
            /\ outcome.kind = "doc"
                 => /\ WholeDocument(outcome)
                    /\ first_missing = None
                    /\ ~broken
            /\ outcome.kind = "ValidationError"
                 => /\ outcome.error_code = "DATA_TRANSFORMATION_ERROR"
                    /\ outcome.details.project_id = ProjectId
                    /\ outcome.message
                          = "Failed to transform Riskuity data: " \o outcome.details.error
                    /\ first_missing # None \/ broken
                    /\ first_missing # None
                         => /\ outcome.cause \in MissingFieldCodes
                            /\ outcome.field = first_missing
                            /\ NamesField(outcome.message, first_missing)
                    /\ first_missing = None
                         => outcome.cause \in {"AttributeError", "ValueError"}

\* overrides without lead_reviewer_email: the ValidationError names it
C20_Witness ==
    /\ Len(outcomes) >= 1
    /\ outcomes[1].kind = "ValidationError"
    /\ outcomes[1].cause = "MISSING_CONTRACTOR_FIELD"
    /\ outcomes[1].details.project_id = ProjectId
    /\ outcomes[1].message =
          "Failed to transform Riskuity data: [MISSING_CONTRACTOR_FIELD] Missing required contractor field: 'lead_reviewer_email'"

\* the positions of the Deficient areas in a collection
DeficientPositions(assessments) ==
    {i \in DOMAIN assessments : assessments[i].finding = "D"}

\* C23: in every document transform returns, deficiency_count is the number
\* of areas with finding D, has_deficiencies tells whether it is positive,
\* deficiency_areas lists the D areas in the order of the collection, and
\* total_review_areas is the size of the collection, the number of
\* canonical areas.
C23_MetadataAgrees ==
    \A k \in DOMAIN outcomes :
        outcomes[k].kind = "doc" =>
            LET assessments == outcomes[k].assessments
                metadata == outcomes[k].metadata
                D == DeficientPositions(assessments)
                Nth(j) == CHOOSE i \in D : Cardinality({x \in D : x < i}) = j - 1
            IN  /\ metadata.deficiency_count = Cardinality(D)
                /\ metadata.has_deficiencies <=> metadata.deficiency_count > 0
                /\ Len(metadata.deficiency_areas) = Cardinality(D)
                /\ \A j \in 1..Cardinality(D) :
                      metadata.deficiency_areas[j] = assessments[Nth(j)].review_area
                /\ metadata.total_review_areas = Len(assessments)
                /\ metadata.total_review_areas = Len(get_all_json_review_areas)

\* a document with two Deficient areas, listed in the order the records
\* came in (Legal last) among NotApplicable ones
C23_Witness ==
    /\ Len(outcomes) >= 1
    /\ outcomes[1].kind = "doc"
    /\ outcomes[1].metadata.deficiency_count = 2
    /\ outcomes[1].metadata.has_deficiencies
    /\ outcomes[1].metadata.deficiency_areas[2] = "Legal"
    /\ \E i \in DOMAIN outcomes[1].assessments : outcomes[1].assessments[i].finding = "NA"

\* a record whose processing fails: it is no object, or its control, its
\* assessment, its comments or its first instance is null
Malformed(project_control) ==
    \/ project_control.kind # "dict"
    \/ project_control.control.t = "null"
    \/ project_control.assessment.t = "null"
    \/ project_control.assessment.comments.t = "null"
    \/ /\ project_control.assessment.instances # <<>>
       /\ project_control.assessment.instances[1].t = "null"

\* C25: a record whose processing fails is left out and the others are
\* consolidated as if it were not there; neither the consolidation nor
\* transform raises because of it.
C25_RecordFailuresNotFatal ==
    /\ consolidated.run
         => /\ ~consolidated.raised
            /\ \E seed \in Seeds :
                 consolidated.result =
                    _consolidate_assessments_by_review_area(
                        SelectSeq(controls, LAMBDA rec : ~Malformed(rec)), seed).result
    /\ \A k \in DOMAIN outcomes :
         outcomes[k].kind = "ValidationError" => outcomes[k].cause \in MissingFieldCodes

\* the records that were classified: the entries of the groups
Classified == UNION {Range(g.controls) : g \in Range(review_areas)}

\* the comment of a classified record says `word`, in any letter case
CommentSays(c, words) ==
    \E w \in words : Contains(lower(c.assessment.comments.v), w)

\* the review status of the first instance of the record says `word`
InstanceSays(c, words) ==
    /\ c.assessment.instances # <<>>
    /\ \E w \in words : Contains(lower(c.assessment.instances[1].v), w)

\* C27 as stated: a deficiency keyword in the comment gives D, even next to
\* a not-applicable phrase; otherwise a not-applicable phrase in the comment
\* gives NA; otherwise the finding comes from the status and is ND, so a
\* record with neither kind of phrase in its comment is never D or NA.
C27_CommentThenStatus ==
    \A c \in Classified :
        c.finding =
            IF CommentSays(c, {"fail", "deficien", "non-complian", "violation"}) THEN "D"
            ELSE IF CommentSays(c, {"not applicable", "n/a"}) THEN "NA"
            ELSE "ND"

\* C27 amended: between the comment rules and the status there is a third
\* rule on the review status of the record's first instance: a deficiency
\* keyword there ("deficien", "fail", "non-complian") gives D, otherwise a
\* not-applicable phrase there gives NA; only then is the finding ND,
\* whatever the status.
C27_CommentThenInstanceThenStatus ==
    \A c \in Classified :
        c.finding =
            IF CommentSays(c, {"fail", "deficien", "non-complian", "violation"}) THEN "D"
            ELSE IF CommentSays(c, {"not applicable", "n/a"}) THEN "NA"
            ELSE IF InstanceSays(c, {"deficien", "fail", "non-complian"}) THEN "D"
            ELSE IF InstanceSays(c, {"not applicable", "n/a"}) THEN "NA"
            ELSE "ND"

\* a record whose comment holds a deficiency keyword and "N/A" was
\* classified D, and one with no comment was classified D by its instance
C27_Witness ==
    /\ \E c \in Classified :
          /\ CommentSays(c, {"fail"})
          /\ CommentSays(c, {"n/a"})
          /\ c.finding = "D"
    /\ \E c \in Classified :
          /\ c.assessment.comments.v = <<>>
          /\ InstanceSays(c, {"fail"})
          /\ c.finding = "D"

-----------------------------------------------------------------------------
(* The blob store: S3Storage's JSON cache (s3_storage.py) *)

\* a cache lifetime handed to upload_json_data, in hours; the clock `now`
\* counts hours
MaxTtl == 2
TtlChoices == 1..MaxTtl

SECONDS_PER_HOUR == 3600

\* d[k] = v on a Python dict
SetItem(d, k, v) == (k :> v) @@ d

\* json.dumps(data, indent=2, default=str) and json.loads on the documents of
\* the model, whose values are all JSON-native: the text is kept as the tree
\* it encodes
JsonDumps(data) == [ContentType |-> "application/json", Body |-> data]
JsonLoads(content) == content.Body

\* f"data/{project_id}_project-data.json"
S3Key(project_id) == "data/" \o project_id \o "_project-data.json"

Keys == {S3Key(str(ProjectId))}

EmptyBucket == [k \in Keys |-> <<>>]

\* s3_storage.py:144-221.  Stamps the caller's dict with _metadata, then puts
\* the serialised dict; every failure leaves as S3StorageError.
upload_json_data(b, project_id, data, ttl_hours, clock, s3_fails) ==
    LET s3_key == S3Key(project_id)
        stamped == SetItem(data, "_metadata",
                       [generated_at |-> IsoZ(clock),
                        expires_at |-> IsoZ(clock + ttl_hours),
                        project_id |-> project_id])
    IN  IF s3_fails
        THEN [raised |-> "S3StorageError", bucket |-> b, data |-> stamped, value |-> None]
        ELSE [raised |-> None,
              bucket |-> [b EXCEPT ![s3_key] = <<JsonDumps(stamped)>>],
              data |-> stamped,
              value |-> s3_key]

\* the expiry test without the clock comparison
Expired_Never(data, clock) == FALSE

\* the expiry test of get_json_data (lines 251-266)
Expired(data, clock) ==
    /\ "_metadata" \in DOMAIN data
    /\ clock > FromIsoZ(data["_metadata"].expires_at)

\* a read that removes the entry it finds expired
get_json_data_DeletesExpired(b, project_id, clock, s3_fails) ==
    LET s3_key == S3Key(project_id) IN
    IF s3_fails THEN [raised |-> "S3StorageError", bucket |-> b, value |-> <<>>]
    ELSE IF b[s3_key] = <<>> THEN [raised |-> None, bucket |-> b, value |-> <<>>]
    ELSE LET data == JsonLoads(b[s3_key][1]) IN
         IF Expired(data, clock)
         THEN [raised |-> None, bucket |-> [b EXCEPT ![s3_key] = <<>>], value |-> <<>>]
         ELSE [raised |-> None, bucket |-> b, value |-> <<data>>]

\* s3_storage.py:223-293.  value is <<>> for None, <<data>> for a document;
\* the only S3 call made is GetObject, so the bucket is as it was.
get_json_data(b, project_id, clock, s3_fails) ==
    LET s3_key == S3Key(project_id) IN
    IF s3_fails THEN [raised |-> "S3StorageError", bucket |-> b, value |-> <<>>]
    ELSE IF b[s3_key] = <<>> THEN [raised |-> None, bucket |-> b, value |-> <<>>]
    ELSE LET data == JsonLoads(b[s3_key][1]) IN
         IF Expired(data, clock) THEN [raised |-> None, bucket |-> b, value |-> <<>>]
         ELSE [raised |-> None, bucket |-> b, value |-> <<data>>]

\* s3_storage.py:372-408.  DeleteObject succeeds whether or not the key holds
\* an object.
delete_document(b, s3_key, s3_fails) ==
    IF s3_fails THEN [raised |-> "S3StorageError", bucket |-> b, value |-> FALSE]
    ELSE [raised |-> None, bucket |-> [b EXCEPT ![s3_key] = <<>>], value |-> TRUE]

-----------------------------------------------------------------------------
(* The orchestrator: DataService (data_service.py) *)

cache_ttl_seconds == 3600

\* Python's binding of a call made with keyword arguments only: every keyword
\* names a parameter and every parameter without default is given
Binds(keywords, params, required) ==
    keywords \subseteq params /\ required \subseteq keywords

\* def transform(self, project_id, riskuity_project_controls,
\*               project_metadata=None, correlation_id=None)
TransformParams ==
    {"project_id", "riskuity_project_controls", "project_metadata", "correlation_id"}
TransformRequired == {"project_id", "riskuity_project_controls"}
\* the call in fetch_and_transform
TransformKeywords ==
    {"project_id", "riskuity_assessments", "project_metadata", "correlation_id"}

\* def upload_json_data(self, project_id, data, ttl_hours=1)
UploadParams == {"project_id", "data", "ttl_hours"}
UploadRequired == {"project_id", "data"}
\* the call in _cache_data
UploadKeywords == {"project_id", "data", "ttl_seconds"}

\* _get_cached_data with the truth test on the cached entry inverted
_get_cached_data_Inverted(b, project_id, clock, s3_fails) ==
    LET g == get_json_data(b, str(project_id), clock, s3_fails) IN
    IF g.raised # None THEN <<>>
    ELSE IF g.value # <<>> THEN <<>>
    ELSE g.value

\* data_service.py:273-340.  <<>> for None, <<cached>> for a hit.
_get_cached_data(b, project_id, clock, s3_fails) ==
    LET g == get_json_data(b, str(project_id), clock, s3_fails) IN
    IF g.raised # None THEN <<>>
    ELSE IF g.value = <<>> THEN <<>>
    ELSE LET cached_data == g.value[1] IN
         IF "generated_at" \in DOMAIN cached_data
         THEN <<SetItem(cached_data, "_cache_age_seconds",
                    (clock - FromIsoZ(cached_data["generated_at"])) * SECONDS_PER_HOUR)>>
         ELSE <<cached_data>>

\* data_service.py:342-393.  Never raises: whatever the upload raises is logged.
_cache_data(b, project_id, data, clock, s3_fails) ==
    IF ~Binds(UploadKeywords, UploadParams, UploadRequired)
    THEN [raised |-> None, logged |-> "TypeError", bucket |-> b, data |-> data]
    ELSE LET u == upload_json_data(b, str(project_id), data, cache_ttl_seconds,
                                   clock, s3_fails)
         IN  [raised |-> None, logged |-> u.raised, bucket |-> u.bucket, data |-> u.data]

\* data_service.py:395-433
invalidate_cache(b, project_id, s3_fails) ==
    LET d == delete_document(b, S3Key(str(project_id)), s3_fails) IN
    IF d.raised # None THEN [bucket |-> b, value |-> FALSE]
    ELSE [bucket |-> d.bucket, value |-> d.value]

Returned(doc) == [kind |-> "doc", doc |-> <<doc>>, error_code |-> ""]
Raised(kind, error_code) == [kind |-> kind, doc |-> <<>>, error_code |-> error_code]
NoResult == [kind |-> "none", doc |-> <<>>, error_code |-> ""]

\* what a transform call gives its caller: the document, or the error raised
Outcome(t) ==
    IF t.kind = "doc" THEN Returned(Without(t, {"kind"})) ELSE Raised(t.kind, t.error_code)

\* a slip in the handlers: the catch-all clause takes the remote's error too
\* the error codes of the RiskuityAPIErrors the client raises
\* (riskuity_client.py:159-292)
RiskuityAPIErrorCodes ==
    { "RISKUITY_TIMEOUT", "RISKUITY_CONNECTION_ERROR", "RISKUITY_SERVER_ERROR",
      "RISKUITY_INVALID_JSON", "RISKUITY_UNEXPECTED_ERROR",
      "RISKUITY_HTTP_400", "RISKUITY_HTTP_404", "RISKUITY_HTTP_502", "RISKUITY_HTTP_4xx" }

fetch_and_transform_WrapsAll(project_id, project_metadata, fetched, seed, clock) ==
    IF ~fetched.ok
    THEN [steps |-> <<"Fetch">>, result |-> Raised("ValidationError", "DATA_SERVICE_ERROR")]
    ELSE IF ~Binds(TransformKeywords, TransformParams, TransformRequired)
    THEN [steps |-> <<"Fetch">>, result |-> Raised("ValidationError", "DATA_SERVICE_ERROR")]
    ELSE [steps |-> <<"Fetch", "Consolidate">>,
          result |-> Outcome(transform(project_id, fetched.records, project_metadata,
                                       seed, clock))]

\* data_service.py:163-271.  `fetched` is what get_all_assessment_details
\* gave: an exception (a RiskuityAPIError with its code, or another
\* exception named by its type) or the list of records.  A RiskuityAPIError
\* is re-raised (231-242), any other exception of the fetch is wrapped by
\* the last handler (257-271).  steps are the stages that ran.
fetch_and_transform(project_id, project_metadata, fetched, seed, clock) ==
    IF ~fetched.ok /\ fetched.error_code \in RiskuityAPIErrorCodes
    THEN [steps |-> <<"Fetch">>, result |-> Raised("RiskuityAPIError", fetched.error_code)]
    ELSE IF ~fetched.ok
    THEN [steps |-> <<"Fetch">>, result |-> Raised("ValidationError", "DATA_SERVICE_ERROR")]
    ELSE IF ~Binds(TransformKeywords, TransformParams, TransformRequired)
    THEN [steps |-> <<"Fetch">>, result |-> Raised("ValidationError", "DATA_SERVICE_ERROR")]
    ELSE [steps |-> <<"Fetch", "Consolidate">>,
          result |-> Outcome(transform(project_id, fetched.records, project_metadata,
                                       seed, clock))]

-----------------------------------------------------------------------------
(* Spec: the cache and the orchestrator over one bucket *)

\* the get_project_data calls in progress or awaited
Runs == DOMAIN run

NotSeen == [checked |-> FALSE, failed |-> FALSE, entry |-> <<>>, at |-> 0]

IdleRun ==
    [pc |-> "idle", force_refresh |-> FALSE,
     project_metadata |-> [isNone |-> TRUE, d |-> EmptyDict],
     result |-> NoResult, trace |-> <<>>, seen |-> NotSeen,
     fetch_ok |-> FALSE, fetch_error |-> "", records |-> <<>>, api_calls |-> 0, s3_reads |-> 0, s3_writes |-> 0]

\* a record the remote returns: "LEGAL : L2" with a failing comment
SampleRecord ==
    ProjectControl("4311", <<"LEGAL", " ", ":", " ", "L2">>,
        Assessment("Complete", Str(<<"FAIL", "ed", " ", "check">>),
                   Str(<<"legal", " ", "basis">>), <<>>))

\* what get_all_assessment_details gives fetch_and_transform
FetchOutcomes ==
    { [ok |-> FALSE, error_code |-> "RISKUITY_SERVER_ERROR", records |-> <<>>],
      [ok |-> FALSE, error_code |-> "RISKUITY_HTTP_404", records |-> <<>>],
      [ok |-> FALSE, error_code |-> "ValueError", records |-> <<>>],
      [ok |-> TRUE, error_code |-> "", records |-> <<>>],
      [ok |-> TRUE, error_code |-> "", records |-> <<SampleRecord>>] }

MetadataChoices ==
    { [isNone |-> TRUE, d |-> EmptyDict], [isNone |-> FALSE, d |-> FullOverrides] }

\* documents handed to the store directly: with and without a top-level
\* generated_at
SampleDocs ==
    { ("project_id" :> "33") @@ ("recipient_name" :> "Metro Transit"),
      ("project_id" :> "33") @@ ("generated_at" :> IsoZ(0)) @@ ("data_version" :> "1.0") }

\* no transformer call and no validator call of its own is made
TransformIdle ==
    /\ validation = <<>>
    /\ controls = <<>>
    /\ overrides = [isNone |-> TRUE, d |-> EmptyDict]
    /\ hashSeed = 0
    /\ review_areas = <<>>
    /\ consolidated = [run |-> FALSE, raised |-> FALSE, result |-> <<>>]
    /\ outcomes = <<>>
    /\ restarted = FALSE
    /\ now = 0

Init ==
    /\ TransformIdle
    /\ fetcher = <<>>
    /\ requests = <<>>
    /\ call = <<>>
    /\ bucket = EmptyBucket
    /\ run = [r \in {1} |-> IdleRun]
    /\ lastPut = [k \in Keys |-> <<>>]
    /\ lastCall = <<>>

\* the client makes its calls one after the other
AllIdle == \A r \in Runs : run[r].pc = "idle"

\* S3Storage.upload_json_data(str(ProjectId), doc, ttl_hours)
UploadJsonData ==
    /\ AllIdle
    /\ \E doc \in SampleDocs, ttl_hours \in TtlChoices, s3_fails \in BOOLEAN :
        LET u == upload_json_data(bucket, str(ProjectId), doc, ttl_hours, now, s3_fails) IN
        /\ bucket' = u.bucket
        /\ lastPut' = IF u.raised # None THEN lastPut
                      ELSE [lastPut EXCEPT ![u.value] =
                               <<[doc |-> doc, ttl_hours |-> ttl_hours, at |-> now]>>]
        /\ lastCall' = <<[op |-> "upload_json_data", raised |-> u.raised]>>
    /\ UNCHANGED <<transformVars, validatorVars, fetchVars, now, run>>

\* S3Storage.get_json_data(str(ProjectId))
GetJsonData ==
    /\ AllIdle
    /\ \E s3_fails \in BOOLEAN :
        LET g == get_json_data(bucket, str(ProjectId), now, s3_fails) IN
        /\ lastCall' = <<[op |-> "get_json_data", at |-> now, raised |-> g.raised,
                          value |-> g.value, put |-> lastPut[S3Key(str(ProjectId))]]>>
        /\ bucket' = g.bucket
    /\ UNCHANGED <<transformVars, validatorVars, fetchVars, now, run, lastPut>>

\* DataService.invalidate_cache(ProjectId)
InvalidateCache ==
    /\ AllIdle
    /\ \E s3_fails \in BOOLEAN :
        LET key == S3Key(str(ProjectId))
            i == invalidate_cache(bucket, ProjectId, s3_fails)
        IN  /\ bucket' = i.bucket
            /\ lastPut' = IF s3_fails THEN lastPut ELSE [lastPut EXCEPT ![key] = <<>>]
            /\ lastCall' = <<[op |-> "invalidate_cache", cached |-> bucket[key] # <<>>,
                              s3_failed |-> s3_fails, value |-> i.value]>>
    /\ UNCHANGED <<transformVars, validatorVars, fetchVars, now, run>>

\* DataService._cache_data(ProjectId, doc)
CacheData ==
    /\ AllIdle
    /\ \E doc \in SampleDocs, s3_fails \in BOOLEAN :
        LET key == S3Key(str(ProjectId))
            c == _cache_data(bucket, ProjectId, doc, now, s3_fails)
        IN  /\ bucket' = c.bucket
            /\ lastPut' = IF c.logged # None THEN lastPut
                          ELSE [lastPut EXCEPT ![key] =
                                   <<[doc |-> doc, ttl_hours |-> cache_ttl_seconds, at |-> now]>>]
            /\ lastCall' = <<[op |-> "_cache_data", raised |-> c.raised, logged |-> c.logged,
                              s3_failed |-> s3_fails,
                              stored |-> c.bucket[key] # bucket[key]]>>
    /\ UNCHANGED <<transformVars, validatorVars, fetchVars, now, run>>

\* get_project_data(ProjectId, force_refresh, project_metadata) is called
Call(r) ==
    /\ run[r].pc = "idle"
    /\ \E force_refresh \in BOOLEAN, project_metadata \in MetadataChoices :
        run' = [run EXCEPT ![r] =
                   [IdleRun EXCEPT !.pc = IF force_refresh THEN "Fetch" ELSE "CheckCache",
                                   !.force_refresh = force_refresh,
                                   !.project_metadata = project_metadata]]
    /\ lastCall' = <<>>
    /\ UNCHANGED <<transformVars, validatorVars, fetchVars, now, bucket, lastPut>>

\* get_project_data, lines 132-144: the cache is read; a hit returns
CheckCache(r) ==
    /\ run[r].pc = "CheckCache"
    /\ \E s3_fails \in BOOLEAN :
        LET cached_data == _get_cached_data(bucket, ProjectId, now, s3_fails)
            read == [run[r] EXCEPT
                        !.trace = Append(@, "CacheGet"),
                        !.s3_reads = @ + 1,
                        !.seen = [checked |-> TRUE, failed |-> s3_fails,
                                  entry |-> bucket[S3Key(str(ProjectId))], at |-> now]]
        IN  /\ run' = [run EXCEPT ![r] =
                       IF cached_data # <<>>
                       THEN [read EXCEPT !.pc = "done", !.result = Returned(cached_data[1])]
                       ELSE [read EXCEPT !.pc = "Fetch"]]
            /\ bucket' = get_json_data(bucket, str(ProjectId), now, s3_fails).bucket
    /\ UNCHANGED <<transformVars, validatorVars, fetchVars, now, lastPut, lastCall>>

\* get_project_data, lines 146-161, after fetch_and_transform gave f:
\* _cache_data on the document it returned, then the return of that document
CacheAndReturn(r, f, fetched, s3_fails) ==
    IF f.result.kind # "doc"
    THEN /\ run' = [run EXCEPT ![r] =
                       [@ EXCEPT !.pc = "done", !.trace = @ \o f.steps,
                                 !.api_calls = @ + 1, !.fetch_ok = fetched.ok,
                                 !.fetch_error = fetched.error_code,
                                 !.records = fetched.records,
                                 !.result = f.result]]
         /\ UNCHANGED <<bucket, lastPut>>
    ELSE \E c \in {_cache_data(bucket, ProjectId, f.result.doc[1], now, s3_fails)} :
         /\ run' = [run EXCEPT ![r] =
                       [@ EXCEPT !.pc = "done",
                                 !.trace = (@ \o f.steps) \o <<"CachePut">>,
                                 !.api_calls = @ + 1, !.fetch_ok = fetched.ok,
                                 !.fetch_error = fetched.error_code,
                                 !.records = fetched.records,
                                 !.s3_writes = @ + 1,
                                 !.result = Returned(c.data)]]
         /\ bucket' = c.bucket
         /\ lastPut' = IF c.logged # None THEN lastPut
                       ELSE [lastPut EXCEPT ![S3Key(str(ProjectId))] =
                                <<[doc |-> f.result.doc[1],
                                   ttl_hours |-> cache_ttl_seconds, at |-> now]>>]

\* get_project_data, lines 146-161: fetch_and_transform, then the above
FetchTransformCache(r) ==
    /\ run[r].pc = "Fetch"
    /\ \E fetched \in FetchOutcomes, s3_fails \in BOOLEAN :
        CacheAndReturn(r, fetch_and_transform(ProjectId, run[r].project_metadata, fetched,
                                              hashSeed, now),
                       fetched, s3_fails)
    /\ UNCHANGED <<transformVars, validatorVars, fetchVars, now, lastCall>>

\* the caller takes the result
TakeResult(r) ==
    /\ run[r].pc = "done"
    /\ run' = [run EXCEPT ![r] = IdleRun]
    /\ UNCHANGED <<transformVars, validatorVars, fetchVars, now, bucket, lastPut, lastCall>>

\* an hour passes
Tick ==
    /\ now < MaxTime
    /\ now' = now + 1
    /\ UNCHANGED <<transformVars, validatorVars, fetchVars, storeVars>>

Next ==
    \/ UploadJsonData
    \/ GetJsonData
    \/ InvalidateCache
    \/ CacheData
    \/ \E r \in Runs : Call(r)
    \/ \E r \in Runs : CheckCache(r)
    \/ \E r \in Runs : FetchTransformCache(r)
    \/ \E r \in Runs : TakeResult(r)
    \/ Tick

Spec == Init /\ [][Next]_vars

-----------------------------------------------------------------------------
(* Claims about the blob store and the orchestrator, checked under Spec *)

TheKey == S3Key(str(ProjectId))

\* the entry stored under the key, decoded
StoredEntry == JsonLoads(bucket[TheKey][1])

\* C4: a get_json_data that S3 answers returns, before the ttl of the last
\* upload_json_data of the key has elapsed, the uploaded document with only
\* the _metadata entry added; it returns None once the time is past the
\* stored expires_at; and it returns None for a key that holds no upload.
C4_CacheRoundTrip ==
    \A i \in DOMAIN lastCall :
        (lastCall[i].op = "get_json_data" /\ lastCall[i].raised = None) =>
            LET g == lastCall[i] IN
            /\ \A p \in Range(g.put) :
                g.at < p.at + p.ttl_hours =>
                    /\ g.value # <<>>
                    /\ \A d \in Range(g.value) :
                        /\ "_metadata" \in DOMAIN d
                        /\ Without(d, {"_metadata"}) = p.doc
            /\ (bucket[TheKey] # <<>>
                    /\ g.at > FromIsoZ(StoredEntry["_metadata"].expires_at))
                => g.value = <<>>
            /\ g.put = <<>> => g.value = <<>>

\* a document uploaded for two hours was read back an hour later
C4_Witness ==
    \E i \in DOMAIN lastCall :
        /\ lastCall[i].op = "get_json_data"
        /\ lastCall[i].value # <<>>
        /\ \E p \in Range(lastCall[i].put) :
            /\ lastCall[i].at > p.at
            /\ Without(lastCall[i].value[1], {"_metadata"}) = p.doc

\* C5: invalidate_cache returns false when the key holds no entry; when it
\* holds one it returns true, and a cache get that follows returns nothing.
C5_InvalidateReportsDeletion ==
    \A i \in DOMAIN lastCall :
        (lastCall[i].op = "invalidate_cache" /\ ~lastCall[i].s3_failed) =>
            /\ lastCall[i].value = lastCall[i].cached
            /\ lastCall[i].cached =>
                get_json_data(bucket, str(ProjectId), now, FALSE).value = <<>>

\* the document the transformer computes from what a run fetched
Computed(r) ==
    transform(ProjectId, run[r].records, run[r].project_metadata, hashSeed, now)

LastN(seq, n) == SubSeq(seq, IF Len(seq) > n THEN Len(seq) - n + 1 ELSE 1, Len(seq))

\* C6: a run that went to the remote ends in one of three ways: the fetch
\* failed and its RiskuityAPIError is raised; the fetch succeeded, the
\* consolidation raised and its ValidationError is raised; or Fetch,
\* Consolidate and CachePut ran in this order and the document is returned.
C6_MissPathReturnsDocument ==
    \A r \in Runs :
        (run[r].pc = "done" /\ run[r].api_calls > 0) =>
            IF ~run[r].fetch_ok
            THEN /\ run[r].result.kind = "RiskuityAPIError"
                 /\ LastN(run[r].trace, 1) = <<"Fetch">>
            ELSE IF Computed(r).kind = "doc"
            THEN /\ run[r].result.kind = "doc"
                 /\ LastN(run[r].trace, 3) = <<"Fetch", "Consolidate", "CachePut">>
            ELSE /\ run[r].result.kind = "ValidationError"
                 /\ run[r].result.error_code = Computed(r).error_code
                 /\ LastN(run[r].trace, 2) = <<"Fetch", "Consolidate">>

\* the read of the run found an entry S3 delivered and that had not expired
CacheHit(r) ==
    /\ run[r].seen.checked
    /\ ~run[r].seen.failed
    /\ \E e \in Range(run[r].seen.entry) :
        run[r].seen.at <= FromIsoZ(JsonLoads(e)["_metadata"].expires_at)

\* C7: a run without force_refresh that finds a non-expired entry returns
\* that entry, with no remote call and no cache write; a run with
\* force_refresh never reads the cache.
C7_CacheHitShortCircuits ==
    \A r \in Runs :
        /\ (run[r].pc = "done" /\ ~run[r].force_refresh /\ CacheHit(r)) =>
            /\ run[r].result.kind = "doc"
            /\ \A d \in Range(run[r].result.doc) :
                Without(d, {"_cache_age_seconds"}) = JsonLoads(run[r].seen.entry[1])
            /\ run[r].api_calls = 0
            /\ run[r].s3_writes = 0
            /\ run[r].trace = <<"CacheGet">>
        /\ run[r].force_refresh =>
            /\ run[r].s3_reads = 0
            /\ ~run[r].seen.checked
            /\ "CacheGet" \notin Range(run[r].trace)

\* a run returned an entry cached an hour or more before, untouched
C7_Witness ==
    \E r \in Runs :
        /\ run[r].pc = "done"
        /\ ~run[r].force_refresh
        /\ CacheHit(r)
        /\ run[r].result.kind = "doc"
        /\ run[r].seen.at > FromIsoZ(run[r].result.doc[1]["_metadata"].generated_at)
        /\ run[r].api_calls = 0

\* C8: no run ends with a StorageError; a run whose cache read failed goes
\* on to Fetch as a run that missed does; and a run whose fetch succeeded
\* and whose document the transformer can compute returns that document,
\* whether or not the cache write fails.
C8_CacheFailuresNotTerminal ==
    \A r \in Runs :
        run[r].pc = "done" =>
            /\ run[r].result.kind # "S3StorageError"
            /\ run[r].seen.failed => SubSeq(run[r].trace, 1, 2) = <<"CacheGet", "Fetch">>
            /\ (run[r].fetch_ok /\ Computed(r).kind = "doc") => run[r].result.kind = "doc"

\* C21: a run whose list call ended in RiskuityAPIError returns no document
\* and raises that RiskuityAPIError, error code unchanged; no step of such a
\* run, and no step of a run other than the one that ends a successful
\* fetch, changes the bucket.
C21_FailedFetchPropagates ==
    [][\A r \in Runs :
          /\ (/\ run[r].pc = "Fetch" /\ run'[r].pc = "done" /\ ~run'[r].fetch_ok
              /\ run'[r].fetch_error \in RiskuityAPIErrorCodes)
               => /\ run'[r].result = Raised("RiskuityAPIError", run'[r].fetch_error)
                  /\ run'[r].result.doc = <<>>
                  /\ run'[r].s3_writes = run[r].s3_writes
                  /\ bucket' = bucket
          /\ (run'[r] # run[r] /\ ~(run[r].pc = "Fetch" /\ run'[r].fetch_ok))
               => bucket' = bucket]_vars

\* a forced refresh over a stored entry failed with the remote's 404: the
\* entry is still stored and the run raised RISKUITY_HTTP_404
C21_Witness ==
    \E r \in Runs :
        /\ run[r].pc = "done"
        /\ run[r].force_refresh
        /\ run[r].api_calls = 1
        /\ run[r].result = Raised("RiskuityAPIError", "RISKUITY_HTTP_404")
        /\ bucket[TheKey] # <<>>

\* the entry stored under the key has passed its expires_at
StoredExpired ==
    /\ bucket[TheKey] # <<>>
    /\ now > FromIsoZ(StoredEntry["_metadata"].expires_at)

\* C24: a get_json_data on an expired entry returns None and leaves the
\* bucket as it was, and so does the cache read of a run; an entry leaves
\* the bucket only in an invalidate_cache call, and is replaced only by a
\* put on its key.
C24_ExpiredReadLeavesEntry ==
    [][/\ (lastCall' # lastCall /\ lastCall' # <<>> /\ lastCall'[1].op = "get_json_data")
            => /\ bucket' = bucket
               /\ (StoredExpired /\ lastCall'[1].raised = None)
                    => lastCall'[1].value = <<>>
       /\ \A r \in Runs : (run[r].pc = "CheckCache" /\ run'[r] # run[r]) => bucket' = bucket
       /\ \A k \in Keys :
            bucket'[k] # bucket[k]
                => IF bucket'[k] = <<>>
                   THEN lastCall' # <<>> /\ lastCall'[1].op = "invalidate_cache"
                   ELSE /\ lastPut'[k] # <<>>
                        /\ lastPut'[k][1].at = now
                        /\ JsonLoads(bucket'[k][1])["_metadata"].generated_at = IsoZ(now)]_vars

\* get_json_data was called on an entry past its expires_at: it returned
\* None and the entry is still stored
C24_Witness ==
    /\ lastCall # <<>>
    /\ lastCall[1].op = "get_json_data"
    /\ lastCall[1].at = now
    /\ lastCall[1].raised = None
    /\ lastCall[1].value = <<>>
    /\ StoredExpired

\* C26: a _cache_data call that S3 does not fail stores an entry for the
\* subject whose expires_at is its write time plus cache_ttl_seconds, so a
\* get_json_data made at once finds it; and a run that reached its cache
\* write with S3 healthy leaves such an entry behind.
C26_WriteBackStores ==
    /\ (lastCall # <<>> /\ lastCall[1].op = "_cache_data" /\ ~lastCall[1].s3_failed)
         => /\ bucket[TheKey] # <<>>
            /\ lastPut[TheKey] # <<>>
            /\ (FromIsoZ(StoredEntry["_metadata"].expires_at)
                   - FromIsoZ(StoredEntry["_metadata"].generated_at)) * SECONDS_PER_HOUR
                 = cache_ttl_seconds
            /\ now = lastPut[TheKey][1].at
                 => get_json_data(bucket, str(ProjectId), now, FALSE).value # <<>>
    /\ \A r \in Runs :
         (run[r].pc = "done" /\ run[r].s3_writes > 0) => bucket[TheKey] # <<>>

-----------------------------------------------------------------------------
(* SpecRace: two get_project_data calls for the same subject, interleaved  *)
(* at their awaits, on a cold cache                                        *)

InitRace ==
    /\ TransformIdle
    /\ fetcher = <<>>
    /\ requests = <<>>
    /\ call = <<>>
    /\ bucket = EmptyBucket
    /\ run = [r \in {1, 2} |-> IdleRun]
    /\ lastPut = [k \in Keys |-> <<>>]
    /\ lastCall = <<>>

NextRace ==
    \/ \E r \in Runs : Call(r)
    \/ \E r \in Runs : CheckCache(r)
    \/ \E r \in Runs : FetchTransformCache(r)
    \/ \E r \in Runs : TakeResult(r)

SpecRace == InitRace /\ [][NextRace]_vars

\* the run read the cache, S3 answered, and no entry was stored
ObservedMiss(r) ==
    /\ run[r].seen.checked
    /\ ~run[r].seen.failed
    /\ run[r].seen.entry = <<>>

\* both runs observed a miss before either went to the remote
BothMissed == \A r \in Runs : run[r].pc = "Fetch" /\ ObservedMiss(r)

\* C22: nothing keeps two runs for the same subject apart.  When both have
\* observed a miss on the cold cache and both fetches succeeded, each run
\* made its own remote call, each wrote the cache, and the entry stored in
\* the end is the document of one of the two writes, the last one.
C22_BothFetchBothWrite ==
    (/\ Cardinality(Runs) = 2
     /\ \A r \in Runs : run[r].pc = "done" /\ ObservedMiss(r) /\ run[r].fetch_ok)
        => /\ \A r \in Runs :
                /\ run[r].api_calls = 1
                /\ run[r].s3_writes = 1
                /\ run[r].result.kind = "doc"
           /\ bucket[TheKey] # <<>>
           /\ lastPut[TheKey] # <<>>
           /\ \E r \in Runs :
                /\ run[r].result.kind = "doc"
                /\ StoredEntry = run[r].result.doc[1]

-----------------------------------------------------------------------------
(* The remote fetcher: RiskuityClient (riskuity_client.py) *)

max_retries == 3
DEFAULT_MAX_CONCURRENT == 10

\* the longest list the remote returns, and the largest batch size tried
\* besides the default
MaxList == 4
MaxConcurrent == 2

\* what the remote does with one attempt: an HTTP response (status, the
\* Retry-After header, whether the body parses as JSON) or a transport error
Http(status, retry_after, json) ==
    [kind |-> "http", status |-> status, retry_after |-> retry_after, json |-> json]

Responses ==
    { Http(200, "", TRUE), Http(200, "", FALSE),
      Http(429, "", TRUE), Http(429, "1", TRUE), Http(429, "soon", TRUE),
      Http(500, "", TRUE), Http(503, "", TRUE), Http(502, "", TRUE),
      [kind |-> "TimeoutException", status |-> 0, retry_after |-> "", json |-> FALSE],
      [kind |-> "RequestError", status |-> 0, retry_after |-> "", json |-> FALSE] }

StatusText(status) ==
    CASE status = 502 -> "502" [] status = 404 -> "404" [] status = 400 -> "400"
      [] OTHER -> "4xx"

NewRequest == [st |-> "new", attempt |-> 0, delay |-> 0, error_code |-> ""]
Sending(attempt) == [st |-> "sending", attempt |-> attempt, delay |-> 0, error_code |-> ""]
Sleeping(attempt, delay) ==
    [st |-> "sleeping", attempt |-> attempt, delay |-> delay, error_code |-> ""]
Succeeded(attempt) == [st |-> "ok", attempt |-> attempt, delay |-> 0, error_code |-> ""]
Failed(attempt, error_code) ==
    [st |-> "failed", attempt |-> attempt, delay |-> 0, error_code |-> error_code]

\* the failures retried with backoff, given up at once
Backoff_NoRetry(attempt, error_code) == Failed(attempt, error_code)

\* retry or give up, for the failures retried with backoff (lines 148-176,
\* 233-286)
Backoff(attempt, error_code) ==
    IF attempt < max_retries THEN Sleeping(attempt, 2 ^ (attempt - 1))
    ELSE Failed(attempt, error_code)

\* the body of the retry loop with every error status retried with backoff
_request_with_retry_RetryAll(attempt, response) ==
    IF response.kind # "http" \/ response.status >= 400
    THEN IF attempt < max_retries THEN Sleeping(attempt, 2 ^ (attempt - 1))
         ELSE Failed(attempt, "RISKUITY_SERVER_ERROR")
    ELSE IF ~response.json THEN Failed(attempt, "RISKUITY_INVALID_JSON")
    ELSE Succeeded(attempt)

\* riskuity_client.py:110-286: the body of the retry loop for one attempt and
\* the response it got
_request_with_retry(attempt, response) ==
    IF response.kind = "TimeoutException" THEN Backoff(attempt, "RISKUITY_TIMEOUT")
    ELSE IF response.kind = "RequestError"
    THEN Backoff(attempt, "RISKUITY_CONNECTION_ERROR")
    ELSE IF response.status = 429
    THEN IF response.retry_after = "" THEN Sleeping(attempt, 2 ^ attempt)
         ELSE IF response.retry_after = "1" THEN Sleeping(attempt, 1)
         ELSE Failed(attempt, "ValueError")
    ELSE IF response.status \in {500, 503} THEN Backoff(attempt, "RISKUITY_SERVER_ERROR")
    ELSE IF response.status >= 400
    THEN Failed(attempt, "RISKUITY_HTTP_" \o StatusText(response.status))
    ELSE IF ~response.json THEN Failed(attempt, "RISKUITY_INVALID_JSON")
    ELSE Succeeded(attempt)

\* the `continue` after a sleep: the next attempt, or the end of the loop
\* (lines 289-294)
Continue(attempt) ==
    IF attempt + 1 <= max_retries THEN Sending(attempt + 1)
    ELSE Failed(attempt, "RISKUITY_UNEXPECTED_ERROR")

\* the k-th summary of the list the remote returns; the second carries no id
Summary(k) == IF k = 2 THEN [id |-> 0] ELSE [id |-> 100 + k]

Listings == {[k \in 1..n |-> Summary(k)] : n \in 0..MaxList}

ConcurrencyChoices == (1..MaxConcurrent) \cup {DEFAULT_MAX_CONCURRENT}

\* [a.get("id") for a in assessments_summary if a.get("id")]
AssessmentIds(assessments_summary) ==
    LET with_id == SelectSeq(assessments_summary, LAMBDA a : a.id # 0) IN
    [k \in DOMAIN with_id |-> with_id[k].id]

\* the record GET /assessments/{id} returns
Detail(assessment_id) == [id |-> assessment_id]

\* the positions in assessment_ids of the slice [i : i + max_concurrent + 1]
BatchIndices_OneMore(n, i, max_concurrent) ==
    {k \in 1..n : i < k /\ k <= i + max_concurrent + 1}

\* the positions in assessment_ids of the slice [i : i + max_concurrent]
BatchIndices(n, i, max_concurrent) ==
    {k \in 1..n : i < k /\ k <= i + max_concurrent}

\* every gathered result appended, exceptions included
Collect_Unfiltered(detailed_assessments, ids, batch, reqs) ==
    detailed_assessments \o
        [j \in 1..Cardinality(batch) |-> Detail(ids[Min(batch) + j - 1])]

\* lines 427-440: the results of the gather that are no exceptions, appended
\* in task order
Collect(detailed_assessments, ids, batch, reqs) ==
    LET batch_results == [j \in 1..Cardinality(batch) |-> Min(batch) + j - 1]
        successes == SelectSeq(batch_results, LAMBDA k : reqs[k].st = "ok")
    IN  detailed_assessments \o [j \in DOMAIN successes |-> Detail(ids[successes[j]])]

-----------------------------------------------------------------------------
(* SpecFetch: one get_all_assessment_details call *)

InitFetch ==
    /\ TransformIdle
    /\ bucket = <<>>
    /\ run = <<>>
    /\ lastPut = <<>>
    /\ lastCall = <<>>
    /\ \E listing \in Listings, max_concurrent \in ConcurrencyChoices :
        fetcher = [pc |-> "start", listing |-> listing, max_concurrent |-> max_concurrent,
                   assessment_ids |-> <<>>, i |-> 0, detailed_assessments |-> <<>>,
                   result |-> <<>>, error_code |-> ""]
    /\ requests = [k \in 0..MaxList |-> NewRequest]
    /\ call = <<>>

\* line 410: the list call is made
GetAssessments ==
    /\ fetcher.pc = "start"
    /\ fetcher' = [fetcher EXCEPT !.pc = "list"]
    /\ requests' = [requests EXCEPT ![0] = Sending(1)]
    /\ UNCHANGED <<transformVars, validatorVars, now, storeVars, call>>

\* the remote answers the attempt of request k, or the attempt fails
Respond(k) ==
    /\ requests[k].st = "sending"
    /\ \E response \in Responses :
        requests' = [requests EXCEPT
                        ![k] = _request_with_retry(requests[k].attempt, response)]
    /\ UNCHANGED <<transformVars, validatorVars, now, storeVars, fetcher, call>>

\* the sleep of request k ends
Wake(k) ==
    /\ requests[k].st = "sleeping"
    /\ requests' = [requests EXCEPT ![k] = Continue(requests[k].attempt)]
    /\ UNCHANGED <<transformVars, validatorVars, now, storeVars, fetcher, call>>

\* lines 410-411: the list call returned
ListReturned ==
    /\ fetcher.pc = "list"
    /\ requests[0].st = "ok"
    /\ fetcher' = [fetcher EXCEPT !.pc = "loop",
                                  !.assessment_ids = AssessmentIds(fetcher.listing)]
    /\ UNCHANGED <<transformVars, validatorVars, now, storeVars, requests, call>>

\* line 410: the list call raised, and so does get_all_assessment_details
ListRaised ==
    /\ fetcher.pc = "list"
    /\ requests[0].st = "failed"
    /\ fetcher' = [fetcher EXCEPT !.pc = "raised", !.error_code = requests[0].error_code]
    /\ UNCHANGED <<transformVars, validatorVars, now, storeVars, requests, call>>

\* lines 422-429: the tasks of the next batch are created and gathered
StartBatch ==
    /\ fetcher.pc = "loop"
    /\ fetcher.i < Len(fetcher.assessment_ids)
    /\ fetcher' = [fetcher EXCEPT !.pc = "gather"]
    /\ requests' = [k \in DOMAIN requests |->
                       IF k \in BatchIndices(Len(fetcher.assessment_ids), fetcher.i,
                                             fetcher.max_concurrent)
                       THEN Sending(1) ELSE requests[k]]
    /\ UNCHANGED <<transformVars, validatorVars, now, storeVars, call>>

\* lines 429-440: every task of the batch is over; its results are collected
GatherDone ==
    /\ fetcher.pc = "gather"
    /\ LET batch == BatchIndices(Len(fetcher.assessment_ids), fetcher.i,
                                 fetcher.max_concurrent)
       IN  /\ \A k \in batch : requests[k].st \in {"ok", "failed"}
           /\ fetcher' = [fetcher EXCEPT
                             !.pc = "loop",
                             !.i = @ + fetcher.max_concurrent,
                             !.detailed_assessments =
                                 Collect(@, fetcher.assessment_ids, batch, requests)]
    /\ UNCHANGED <<transformVars, validatorVars, now, storeVars, requests, call>>

\* line 452: no identifier is left
ReturnDetails ==
    /\ fetcher.pc = "loop"
    /\ fetcher.i >= Len(fetcher.assessment_ids)
    /\ fetcher' = [fetcher EXCEPT !.pc = "returned", !.result = fetcher.detailed_assessments]
    /\ UNCHANGED <<transformVars, validatorVars, now, storeVars, requests, call>>

NextFetch ==
    \/ GetAssessments
    \/ \E k \in DOMAIN requests : Respond(k)
    \/ \E k \in DOMAIN requests : Wake(k)
    \/ ListReturned
    \/ ListRaised
    \/ StartBatch
    \/ GatherDone
    \/ ReturnDetails

SpecFetch == InitFetch /\ [][NextFetch]_vars

-----------------------------------------------------------------------------
(* Claims about the remote fetcher, checked under SpecFetch *)

\* the identifiers the list call listed, in its order
ListedIds == AssessmentIds(fetcher.listing)

Over(k) == requests[k].st \in {"ok", "failed"}

\* C9: when the list call succeeds get_all_assessment_details does not
\* raise, whatever detail requests fail; it returns the records of exactly
\* the detail requests that succeeded, in the order of the listed identifiers.
C9_PartialFailureTolerated ==
    /\ requests[0].st = "ok" => fetcher.pc # "raised"
    /\ fetcher.pc = "returned" =>
        LET succeeded == SelectSeq([k \in 1..Len(ListedIds) |-> k],
                                   LAMBDA k : requests[k].st = "ok")
        IN  /\ \A k \in 1..Len(ListedIds) : Over(k)
            /\ fetcher.result = [j \in DOMAIN succeeded |-> Detail(ListedIds[succeeded[j]])]

\* three identifiers in batches of two, the second failed: two records
\* returned, the first and the third
C9_Witness ==
    /\ fetcher.pc = "returned"
    /\ fetcher.max_concurrent = 2
    /\ Len(ListedIds) = 3
    /\ requests[1].st = "ok" /\ requests[2].st = "failed" /\ requests[3].st = "ok"
    /\ fetcher.result = <<Detail(ListedIds[1]), Detail(ListedIds[3])>>

\* the detail requests sent and not over, sleeping between attempts included
InFlight == {k \in 1..MaxList : requests[k].st \in {"sending", "sleeping"}}

\* the batch of the k-th identifier
BatchOf(k) == (k - 1) \div fetcher.max_concurrent

\* C10: at most max_concurrent detail requests are in flight; no request of
\* a batch is issued before every request of the batches before it is over,
\* retries and sleeps included; and no detail request is issued before the
\* list call has returned.
C10_BoundedBatches ==
    /\ Cardinality(InFlight) <= fetcher.max_concurrent
    /\ \A j, k \in 1..MaxList :
        (BatchOf(j) < BatchOf(k) /\ requests[k].st # "new") => Over(j)
    /\ (\E k \in 1..MaxList : requests[k].st # "new") => requests[0].st = "ok"

\* the second batch is in flight after a request of the first took all its
\* attempts, while a full batch was in flight before
C10_Witness ==
    /\ fetcher.pc = "gather"
    /\ fetcher.max_concurrent = 2
    /\ fetcher.i = 2
    /\ InFlight = {3}
    /\ requests[1].attempt = max_retries
    /\ Over(1) /\ Over(2)

-----------------------------------------------------------------------------
(* SpecRequest: one _request_with_retry call, every attempt logged *)

\* the responses of SpecFetch and two client-error statuses
CallResponses == Responses \cup {Http(404, "", TRUE), Http(400, "", FALSE)}

InitRequest ==
    /\ TransformIdle
    /\ bucket = <<>>
    /\ run = <<>>
    /\ lastPut = <<>>
    /\ lastCall = <<>>
    /\ fetcher = <<>>
    /\ requests = <<>>
    /\ call = [req |-> Sending(1), log |-> <<>>]

\* lines 107-286: the attempt in flight gets its response
RequestAttempt ==
    /\ call.req.st = "sending"
    /\ \E response \in CallResponses :
        \E outcome \in {_request_with_retry(call.req.attempt, response)} :
            call' = [req |-> outcome,
                     log |-> Append(call.log, [attempt |-> call.req.attempt,
                                               response |-> response,
                                               outcome |-> outcome])]
    /\ UNCHANGED <<transformVars, validatorVars, now, storeVars, fetcher, requests>>

\* the sleep ends: the next attempt, or the end of the loop
RequestWake ==
    /\ call.req.st = "sleeping"
    /\ call' = [call EXCEPT !.req = Continue(call.req.attempt)]
    /\ UNCHANGED <<transformVars, validatorVars, now, storeVars, fetcher, requests>>

NextRequest == RequestAttempt \/ RequestWake

SpecRequest == InitRequest /\ [][NextRequest]_vars

-----------------------------------------------------------------------------
(* Claims about the retry loop, checked under SpecRequest *)

\* the failures the loop retries with backoff
Transient(response) ==
    \/ response.kind \in {"TimeoutException", "RequestError"}
    \/ response.kind = "http" /\ response.status \in {500, 503}

\* C11: a request that fails with a transient error on every attempt is
\* retried max_retries times, the k-th retry after a sleep of 2^(k-1)
\* seconds (1s, 2s, 4s), and fails with a typed error only after the last
\* retry.
C11_RetriesWithBackoff ==
    (call.req.st = "failed" /\ \A i \in DOMAIN call.log : Transient(call.log[i].response))
        => /\ Len(call.log) = max_retries + 1
           /\ \A k \in 1..max_retries : call.log[k].outcome = Sleeping(k, 2 ^ (k - 1))
           /\ call.req.error_code \in {"RISKUITY_SERVER_ERROR", "RISKUITY_TIMEOUT",
                                       "RISKUITY_CONNECTION_ERROR"}

\* an attempt that is not the last the loop makes
AttemptsRemain(entry) == entry.attempt < max_retries

\* C12 as stated: every connection error, every timeout and every response
\* with a status in 500..599 received while attempts remain is followed by a
\* sleep and a retry.
C12_RetryEvery5xx ==
    \A i \in DOMAIN call.log :
        (/\ AttemptsRemain(call.log[i])
         /\ \/ call.log[i].response.kind \in {"TimeoutException", "RequestError"}
            \/ call.log[i].response.status \in 500..599)
            => call.log[i].outcome.st = "sleeping"

\* C12 amended: every connection error, every timeout and every 500 or 503
\* response received on an attempt before the last is followed by a backoff
\* sleep and a retry; any other 5xx status fails on the attempt that got it.
C12_Retry500And503 ==
    \A i \in DOMAIN call.log :
        LET entry == call.log[i] IN
        /\ (AttemptsRemain(entry) /\ Transient(entry.response))
            => /\ entry.outcome = Sleeping(entry.attempt, 2 ^ (entry.attempt - 1))
               /\ (i < Len(call.log) \/ call.req.st \in {"sleeping", "sending"})
        /\ (entry.response.kind = "http" /\ entry.response.status \in (500..599) \ {500, 503})
            => /\ entry.outcome.st = "failed"
               /\ i = Len(call.log)

\* a 503 on the first attempt was followed by a second attempt
C12_Witness ==
    /\ Len(call.log) = 2
    /\ call.log[1].response = Http(503, "", TRUE)
    /\ call.log[1].outcome.st = "sleeping"
    /\ call.log[2].attempt = 2

\* C13: a 429 response is always followed by a sleep, of the Retry-After
\* duration when the server sent one and else of the backoff delay of that
\* attempt, 2^(attempt-1) seconds, and then by a retry.
C13_RateLimitWaits ==
    \A i \in DOMAIN call.log :
        LET entry == call.log[i] IN
        (entry.response.kind = "http" /\ entry.response.status = 429)
            => /\ entry.outcome.st = "sleeping"
               /\ entry.response.retry_after = "1" => entry.outcome.delay = 1
               /\ entry.response.retry_after = ""
                    => entry.outcome.delay = 2 ^ (entry.attempt - 1)
               /\ ~(i = Len(call.log) /\ call.req.st = "failed")

\* C14: a response with a status in 400..499 other than 429 ends the call on
\* the attempt that received it: no sleep, no further attempt, and the error
\* raised carries the status.
C14_ClientErrorFailsAtOnce ==
    \A i \in DOMAIN call.log :
        LET entry == call.log[i] IN
        (entry.response.kind = "http" /\ entry.response.status \in (400..499) \ {429})
            => /\ i = Len(call.log)
               /\ call.req = entry.outcome
               /\ entry.outcome.st = "failed"
               /\ entry.outcome.attempt = entry.attempt
               /\ entry.outcome.delay = 0
               /\ entry.response.status = 404 => entry.outcome.error_code = "RISKUITY_HTTP_404"
               /\ entry.response.status = 400 => entry.outcome.error_code = "RISKUITY_HTTP_400"

\* a 404 on the second attempt, after a retried timeout, ended the call
C14_Witness ==
    /\ Len(call.log) = 2
    /\ call.log[1].response.kind = "TimeoutException"
    /\ call.log[2].response = Http(404, "", TRUE)
    /\ call.req = Failed(2, "RISKUITY_HTTP_404")

\* C29: the end of the retry loop is never reached: every call ends with the
\* parsed data or with one of the typed errors raised inside the loop, and
\* RISKUITY_UNEXPECTED_ERROR is never raised, whatever the responses.
C29_FallThroughUnreachable ==
    /\ call.req.error_code # "RISKUITY_UNEXPECTED_ERROR"
    /\ call.req.st \in {"ok", "failed"}
         => /\ Len(call.log) >= 1
            /\ call.req = call.log[Len(call.log)].outcome

\* C30: a call that fails raises a RiskuityAPIError, whatever the status,
\* the body and the Retry-After header of the responses, and the
\* orchestrator whose list call failed so reports no ValidationError.
C30_OnlyRiskuityAPIErrorEscapes ==
    call.req.st = "failed"
        => /\ call.req.error_code \in RiskuityAPIErrorCodes
           /\ \A project_metadata \in MetadataChoices :
                 fetch_and_transform(ProjectId, project_metadata,
                                     [ok |-> FALSE, error_code |-> call.req.error_code,
                                      records |-> <<>>], 0, 0).result.kind
                     # "ValidationError"

\* ------------------------------------------------------------------------
\* Completeness validator (src/app/services/validator.py)
\* ------------------------------------------------------------------------

\* the most fields of a document that are damaged at once
MaxMissing == 2

\* JSON values as the validator sees them: a dict, a string, null, or a
\* value of another type (int, bool, list)
JsonObject(members) == [t |-> "dict", v |-> members]
JsonList(items) == [t |-> "list", v |-> items]
JsonBool(b) == [t |-> "bool", v |-> b]
NoMembers == [k \in {} |-> Null]

\* _get_template_requirements: a dotted path is written as the sequence of
\* its parts, which is what field_path.split('.') yields
common_critical ==
    << <<"project", "region_number">>,
       <<"project", "review_type">>,
       <<"project", "recipient_name">>,
       <<"project", "recipient_acronym">>,
       <<"project", "recipient_city_state">>,
       <<"project", "report_date">>,
       <<"contractor", "company_name">>,
       <<"fta_program_manager", "name">>,
       <<"assessments">>,
       <<"metadata", "has_deficiencies">> >>

common_optional ==
    << <<"project", "recipient_website">>,
       <<"project", "site_visit_dates">>,
       <<"project", "exit_conference_format">>,
       <<"fta_program_manager", "title">>,
       <<"fta_program_manager", "region">> >>

_get_template_requirements(template_id) ==
    IF template_id = "draft-audit-report"
    THEN [critical |-> common_critical \o << <<"project", "exit_conference_format">>,
                                             <<"metadata", "deficiency_count">> >>,
          optional |-> common_optional \o << <<"contractor", "team_members">> >>]
    ELSE IF template_id = "recipient-information-request"
    THEN [critical |-> common_critical, optional |-> common_optional]
    ELSE [critical |-> common_critical, optional |-> common_optional]

\* _field_exists: walk the parts through nested dicts; the value reached
\* must be neither None nor the empty string
RECURSIVE _field_exists(_, _)
_field_exists(current, parts) ==
    IF parts = <<>>
    THEN current.t # "null" /\ ~(current.t = "str" /\ current.v = "")
    ELSE IF current.t # "dict" \/ Head(parts) \notin DOMAIN current.v
    THEN FALSE
    ELSE _field_exists(current.v[Head(parts)], Tail(parts))

\* lines 258-267: the paths of a list that the document lacks, in list order
Missing(json_data, field_paths) ==
    SelectSeq(field_paths, LAMBDA field_path : ~_field_exists(json_data, field_path))

\* line 271, and a variant that forgets the optional fields
present_fields_CriticalOnly(total_fields, missing_critical, missing_optional) ==
    total_fields - Len(missing_critical)

present_fields(total_fields, missing_critical, missing_optional) ==
    total_fields - Len(missing_critical) - Len(missing_optional)

\* line 272: int((present_fields / total_fields) * 100) truncates a
\* non-negative float; for the totals of the tables above (15 and 18) the
\* float product never falls below the exact quotient's integer part.
\* The variant rounds up.
quality_score_RoundUp(present, total_fields) ==
    IF total_fields > 0 THEN (present * 100 + total_fields - 1) \div total_fields ELSE 100

quality_score(present, total_fields) ==
    IF total_fields > 0 THEN (present * 100) \div total_fields ELSE 100

check_completeness(json_data, template_id) ==
    LET template_requirements == _get_template_requirements(template_id)
        missing_critical == Missing(json_data, template_requirements.critical)
        missing_optional == Missing(json_data, template_requirements.optional)
        total_fields == Len(template_requirements.critical)
                        + Len(template_requirements.optional)
    IN  [missing_critical_fields |-> missing_critical,
         missing_optional_fields |-> missing_optional,
         data_quality_score |->
             quality_score(present_fields(total_fields, missing_critical, missing_optional),
                           total_fields),
         can_generate |-> Len(missing_critical) = 0]

\* ---- documents handed to the validator

SeqRange(seq) == {seq[i] : i \in DOMAIN seq}

FieldPaths ==
    SeqRange(_get_template_requirements("draft-audit-report").critical)
    \cup SeqRange(_get_template_requirements("draft-audit-report").optional)

Sections == {field_path[1] : field_path \in {fp \in FieldPaths : Len(fp) = 2}}

\* the value a complete document holds at a path
CompleteValue(field_path) ==
    CASE field_path = <<"assessments">> -> JsonList(<<>>)
      [] field_path = <<"metadata", "has_deficiencies">> -> JsonBool(FALSE)
      [] field_path = <<"metadata", "deficiency_count">> -> IntV(0)
      [] field_path = <<"project", "region_number">> -> IntV(5)
      [] OTHER -> StrV("x")

\* the ways a field is damaged: its key is absent, its value is null, its
\* value is the empty string
DamageKinds == {"absent", "null", "empty"}

\* the complete document with the fields of `holes` damaged in way `kind`
Damaged(holes, kind) ==
    LET Kept(field_path) == ~(kind = "absent" /\ field_path \in holes)
        Member(field_path) ==
            IF field_path \notin holes THEN CompleteValue(field_path)
            ELSE IF kind = "null" THEN Null ELSE StrV("")
        Section(name) ==
            JsonObject([key \in {fp[2] : fp \in {q \in FieldPaths :
                                    Len(q) = 2 /\ q[1] = name /\ Kept(q)}}
                            |-> Member(<<name, key>>)])
        top == Sections \cup {fp[1] : fp \in {q \in FieldPaths : Len(q) = 1 /\ Kept(q)}}
    IN  JsonObject([name \in top |->
            IF name \in Sections THEN Section(name) ELSE Member(<<name>>)])

CompleteDocument == Damaged({}, "absent")

\* overrides that supply every header field, the optional ones included
CompleteOverrides ==
       FullOverrides
    @@ ("site_visit_dates" :> "Oct 1-3, 2025")
    @@ ("exit_conference_format" :> "virtual")
    @@ ("recipient_acronym" :> "MT")
    @@ ("recipient_website" :> "https://metro.example")
    @@ ("site_visit_start_date" :> "2025-10-01")
    @@ ("site_visit_end_date" :> "2025-10-03")
    @@ ("report_date" :> "2025-11-01")

\* the JSON value of a header block of transform: region_number is an int,
\* every other field a string
HeaderAsJson(block) ==
    JsonObject([key \in DOMAIN block |->
        IF key = "region_number" THEN IntV(block[key]) ELSE StrV(block[key])])

\* the canonical dict transform returns (data_transformer.py:114-135), as
\* the JSON value the validator is handed
AsJson(canonical) ==
    JsonObject(
           ("project_id" :> StrV(canonical.project_id))
        @@ ("generated_at" :> StrV("generated_at"))
        @@ ("data_version" :> StrV(canonical.data_version))
        @@ ("project" :> HeaderAsJson(canonical.project))
        @@ ("contractor" :> HeaderAsJson(canonical.contractor))
        @@ ("fta_program_manager" :> HeaderAsJson(canonical.fta_program_manager))
        @@ ("assessments" :> JsonList(canonical.assessments))
        @@ ("erf_items" :> JsonList(canonical.erf_items))
        @@ ("metadata" :> JsonObject(
                  ("has_deficiencies" :> JsonBool(canonical.metadata.has_deficiencies))
               @@ ("deficiency_count" :> IntV(canonical.metadata.deficiency_count))
               @@ ("deficiency_areas" :> JsonList(canonical.metadata.deficiency_areas))
               @@ ("erf_count" :> IntV(canonical.metadata.erf_count))
               @@ ("erf_areas" :> JsonList(canonical.metadata.erf_areas))
               @@ ("total_review_areas" :> IntV(canonical.metadata.total_review_areas)))))

\* documents of the transformer, made with every header field supplied
TransformedDocuments ==
    {AsJson(transform(ProjectId, recs, [isNone |-> FALSE, d |-> CompleteOverrides], 0, 0)) :
        recs \in {<<>>, <<SampleRecord>>}}

Documents ==
    {Damaged(holes, kind) :
        holes \in {h \in SUBSET FieldPaths : Cardinality(h) <= MaxMissing},
        kind \in DamageKinds}
    \cup {JsonObject(NoMembers),
          JsonObject([CompleteDocument.v EXCEPT !["project"] = Null]),
          JsonObject([CompleteDocument.v EXCEPT !["contractor"] = StrV("n/a")]),
          JsonObject([name \in Sections \cup {"assessments"} |-> StrV("")])}
    \cup TransformedDocuments

TemplateIds == {"draft-audit-report", "recipient-information-request", "project-summary"}

\* ------------------------------------------------------------------------
\* SpecValidate: one check_completeness call on a document and a template
\* ------------------------------------------------------------------------

InitValidate ==
    /\ controls = <<>> /\ overrides = <<>> /\ hashSeed = 0
    /\ review_areas = <<>> /\ consolidated = <<>> /\ outcomes = <<>>
    /\ restarted = FALSE /\ now = 0
    /\ bucket = <<>> /\ run = <<>> /\ lastPut = <<>> /\ lastCall = <<>>
    /\ fetcher = <<>> /\ requests = <<>> /\ call = <<>>
    /\ \E json_data \in Documents, template_id \in TemplateIds :
          validation = [json_data |-> json_data, template_id |-> template_id,
                        result |-> <<>>]

\* JsonValidator.check_completeness(json_data, template_id) returns
CheckCompleteness ==
    /\ validation.result = <<>>
    /\ validation' = [validation EXCEPT
          !.result = <<check_completeness(validation.json_data, validation.template_id)>>]
    /\ UNCHANGED <<transformVars, now, storeVars, fetchVars>>

NextValidate == CheckCompleteness

SpecValidate == InitValidate /\ [][NextValidate]_vars

\* ------------------------------------------------------------------------
\* Claims about the completeness validator (SpecValidate)
\* ------------------------------------------------------------------------

Checked == validation # <<>> /\ validation.result # <<>>

CompletenessResult == validation.result[1]

\* the number of entries of a path list that the document holds
CountPresent(field_paths) ==
    Cardinality({i \in DOMAIN field_paths :
                    _field_exists(validation.json_data, field_paths[i])})

\* C15 as stated: a document with no missing critical field can be
\* generated and scores 100, whatever the template.
C15_NoMissingCriticalScores100 ==
    (Checked /\ CompletenessResult.missing_critical_fields = <<>>)
        => /\ CompletenessResult.can_generate = TRUE
           /\ CompletenessResult.data_quality_score = 100

\* C15 amended: a document with no missing critical field can be generated;
\* its score is 100 exactly when no optional field is missing either, and
\* otherwise it is the share of the checked fields that are present,
\* rounded down.
C15_NoMissingCritical ==
    (Checked /\ CompletenessResult.missing_critical_fields = <<>>)
        => LET requirements == _get_template_requirements(validation.template_id)
               T == Len(requirements.critical) + Len(requirements.optional)
               missing == Len(CompletenessResult.missing_optional_fields)
           IN  /\ CompletenessResult.can_generate = TRUE
               /\ CompletenessResult.data_quality_score = 100 <=> missing = 0
               /\ CompletenessResult.data_quality_score = (100 * (T - missing)) \div T

\* every critical field is present, an optional one is not: the document
\* can be generated and scores below 100
C15_Witness ==
    /\ Checked
    /\ CompletenessResult.missing_critical_fields = <<>>
    /\ CompletenessResult.missing_optional_fields = << <<"project", "recipient_website">> >>
    /\ CompletenessResult.can_generate = TRUE
    /\ CompletenessResult.data_quality_score = 93

\* C16: the score is floor(100 * P / T), T the number of critical plus
\* optional paths checked for the template and P the number of them the
\* document holds, so it lies in 0..100; can_generate is true exactly when
\* no critical field is missing.
C16_ScoreIsFloorOfShare ==
    Checked =>
        LET requirements == _get_template_requirements(validation.template_id)
            T == Len(requirements.critical) + Len(requirements.optional)
            P == CountPresent(requirements.critical) + CountPresent(requirements.optional)
            score == CompletenessResult.data_quality_score
        IN  /\ T > 0
            /\ score * T <= 100 * P
            /\ 100 * P < (score + 1) * T
            /\ score \in 0..100
            /\ CompletenessResult.can_generate
                 <=> CompletenessResult.missing_critical_fields = <<>>
            /\ Len(CompletenessResult.missing_critical_fields)
                 = Len(requirements.critical) - CountPresent(requirements.critical)

\* a draft-audit-report document without its exit conference format, a
\* path checked as critical and as optional: 16 of 18 present, score 88
C16_Witness ==
    /\ Checked
    /\ validation.template_id = "draft-audit-report"
    /\ CompletenessResult.missing_critical_fields = << <<"project", "exit_conference_format">> >>
    /\ CompletenessResult.missing_optional_fields = << <<"project", "exit_conference_format">> >>
    /\ CompletenessResult.data_quality_score = 88
    /\ CompletenessResult.can_generate = FALSE

\* C28: a document that transform made from overrides supplying every
\* header field has no missing critical field for draft-audit-report and
\* for recipient-information-request: it can be generated.
C28_TransformedDocumentIsComplete ==
    (/\ Checked
     /\ validation.json_data \in TransformedDocuments
     /\ validation.template_id \in {"draft-audit-report", "recipient-information-request"})
        => /\ CompletenessResult.missing_critical_fields = <<>>
           /\ CompletenessResult.can_generate = TRUE

====
